---- MODULE Spec2Model ----
(***************************************************************************)
(* Model of the TikTok downloader's download-and-extraction service        *)
(* (nodejs_space/src/download/download.service.ts).                        *)
(*                                                                         *)
(* Each request is one call of DownloadService.downloadVideo.  The state   *)
(* is the output directory (fs), the two yt-dlp child processes of a       *)
(* request with the promises their runners return, the local variables of  *)
(* downloadVideo, the read stream handed to the caller and the position   *)
(* of the two cleanup handlers registered on it.                           *)
(*                                                                         *)
(* Environment: yt-dlp writes the video exactly at the path given to -o    *)
(* and the metadata at <id>.info.json; an fs call on a path fails exactly  *)
(* when the path does not exist, except readFile/writeFile, which may      *)
(* also fail with an I/O error.  SpecLoc widens the environment: there the *)
(* video may be left under any of the names <id>, <id>.mp4, <id>.webm,     *)
(* <id>.mkv.                                                               *)
(*                                                                         *)
(* SpecExtract is the specification of the comment selection and          *)
(* formatting of extractComments (lines 242-275) taken alone, over bounded *)
(* inputs, followed by the transport of the text to the web UI.  SpecFs    *)
(* lets unlink(outputPath) reject on an existing file.  SpecLive adds      *)
(* fairness.  SpecHttp and SpecKeys model the guards, the validation and   *)
(* the throttler in front of POST /download; SpecArgs the argument lists   *)
(* of the two yt-dlp invocations.                                          *)
(***************************************************************************)
EXTENDS Integers, Sequences, FiniteSets, TLC

\* ------------------------------------------------------------------ bounds
MaxStderr == 2      \* stderr chunks received from one video invocation
MaxSize == 2        \* largest size (in abstract units) of a written file
MaxLikes == 2       \* largest like_count of a comment
MaxExhaustive == 3  \* collections up to this length are drawn exhaustively
MaxComments == 20   \* longest comment collection drawn
MaxOver == 2        \* lengths are drawn this far on either side of a limit
CapAuthorLen == 126 \* author length that brings 15 full entries to 4999 characters
MaxRequests == 6    \* HTTP requests handled in one run
MaxTicks == 1       \* times the clock advances in one run

\* ------------------------------------------------------- requests and paths
\* The identifiers randomUUID() hands to the requests of the model.
Req == {"id1", "id2"}

OutputPath(videoId) == <<videoId, ".mp4">>
CommentsJsonPath(videoId) == <<videoId, ".info.json">>

\* CommentsTxtPath with a file name that does not carry the identifier.
CommentsTxtPath_Shared(videoId) == <<"id1", "_comments.txt">>

CommentsTxtPath(videoId) == <<videoId, "_comments.txt">>

\* The names under which a video invocation may leave its file (SpecLoc).
VideoExts == {"", ".mp4", ".webm", ".mkv"}

Paths == Req \X (VideoExts \cup {".info.json", "_comments.txt"})

\* ------------------------------------------------------------- filesystem
NoFile == [size |-> -1, data |-> "none"]
Exists(f, p) == f[p] # NoFile
\* fs.unlink: removes the entry; rejects (ENOENT) when there is none.
UnlinkOk(f, p) == Exists(f, p)
Unlink(f, p) == [f EXCEPT ![p] = NoFile]

\* --------------------------------------------------------- yt-dlp's stderr
MarkerUnavailable == "Video unavailable"
MarkerUnsupported == "Unsupported URL"
Marker404 == "HTTP Error 404"
MarkerLogin == "requiring login"
MarkerCookies == "Use --cookies"
OtherText == "ERROR: something else"
StderrChunks == {MarkerUnavailable, MarkerUnsupported, Marker404,
                 MarkerLogin, MarkerCookies, OtherText}

\* String.prototype.includes on the accumulated stderr (a sequence of chunks).
Includes(s, m) == \E i \in 1..Len(s) : s[i] = m

\* ------------------------------------------------------ errors and promises
NoErr == [type |-> "none", msg |-> <<>>]
Err(t, m) == [type |-> t, msg |-> m]
BadRequestException(m) == Err("BadRequest", <<m>>)

MsgUnavailable == "Video is unavailable or private"
MsgUnsupported == "Unsupported or invalid TikTok URL"
MsgNotFound == "Video not found"
MsgAuth == "TikTok requires authentication. Please configure YTDLP_COOKIES_BROWSER in .env (e.g., chrome, firefox, edge, safari)"
MsgInvalidFile == "Downloaded file is invalid or empty"
MsgSpawn == "Failed to execute yt-dlp: "
MsgDownloadFailed == "Download failed: "
MsgUnknown == "Unknown error"
MsgWrap == "Failed to download video: "
MsgSpawnErrno == "spawn yt-dlp ENOENT"
MsgStatEnoent == "ENOENT: no such file or directory, stat"

Pending == [st |-> "pending", e |-> NoErr]
Resolved == [st |-> "resolved", e |-> NoErr]
Rejected(e) == [st |-> "rejected", e |-> e]
\* Settle of a promise that its last settlement would overwrite.
Settle_LastWins(p, outcome) == outcome

\* resolve()/reject() on an already settled promise is a no-op.
Settle(p, outcome) == IF p.st = "pending" THEN outcome ELSE p

\* Exit codes the close event can carry: 0, a nonzero code, null (killed by
\* a signal) and the negative errno Node reports after a failed spawn.
RunCodes == {"0", "1", "null"}
SpawnFailCode == "-2"

\* A child process: its state, the exit code of its close event, the size
\* of the file it left (-1: none) and the extension it left it under.
NoProc == [st |-> "none", code |-> "none", wrote |-> -1, ext |-> "none"]

VARIABLES
  pc,               \* position of downloadVideo(r)
  fs,               \* the output directory: Paths -> file
  vproc,            \* child process of the video invocation
  vpromise,         \* promise returned by executeYtDlp
  stderr,           \* `stderr` accumulated by executeYtDlp
  mproc,            \* child process of the metadata invocation
  mpromise,         \* promise returned by executeYtDlpComments
  err,              \* error caught by the outer catch of downloadVideo
  stats,            \* stats.size of line 63 (-1 before the stat)
  commentsFilePath, \* TRUE when commentsFilePath is non-null
  commentsContent,  \* "undefined" or the text read back
  result,           \* what downloadVideo returned or threw
  stream,           \* the fs.ReadStream: none, open, errored, closed
  hClose,           \* position of the 'close' handler
  hError,           \* position of the 'error' handler
  jsonContent,      \* extractComments: the comments of the metadata file read
  comments,         \* extractComments: `comments` (sorted in place)
  topComments,      \* extractComments: `topComments`
  commentText,      \* extractComments: `commentText` of each kept comment
  textContent,      \* extractComments: `textContent`
  finalContent,     \* extractComments: `finalContent`
  env,              \* process.env: THROTTLE_TTL and THROTTLE_LIMIT
  now,              \* Date.now() in ms
  storage,          \* the throttler's storage: tracker -> expiries of its hits
  keyHits,          \* history: API key -> expiries of the requests carrying it
  served,           \* history: number of requests handled so far
  last,             \* the last request handled and the response it got
  response,         \* the HTTP response the controller produced for the request
  commentsData,     \* the X-Comments-Data header of a response
  commentsText,     \* script.js: `commentsText`, the text the web UI saves
  cookiesBrowser,   \* configuration: YTDLP_COOKIES_BROWSER ("" when unset)
  videoArgs,        \* the argument list executeYtDlp spawned yt-dlp with
  metaArgs          \* the argument list executeYtDlpComments spawned yt-dlp with

\* The variables of the requests and those of the comment selection.
rvars == <<pc, fs, vproc, vpromise, stderr, mproc, mpromise, err, stats,
           commentsFilePath, commentsContent, result, stream, hClose, hError>>
xvars == <<jsonContent, comments, topComments, commentText, textContent, finalContent>>
hvars == <<env, now, storage, keyHits, served, last>>
cvars == <<response, commentsData, commentsText, cookiesBrowser, videoArgs, metaArgs>>
vars == <<rvars, xvars, hvars, cvars>>

NoResult == [outcome |-> "none", status |-> 0, msg |-> <<>>, size |-> -1,
             commentsFile |-> FALSE, commentsContent |-> "undefined"]

\* No response was produced and nothing was sent to the web UI.
NoResponse == [status |-> 0, headers |-> <<>>, body |-> "none", error |-> <<>>]
InitTransport ==
  /\ response = [r \in Req |-> NoResponse]
  /\ commentsData = <<>>
  /\ commentsText = <<>>

\* No subprocess was spawned.
InitArgs ==
  /\ videoArgs = <<>>
  /\ metaArgs = <<>>

InitRequests ==
  /\ pc = [r \in Req |-> "Started"]
  /\ fs = [p \in Paths |-> NoFile]
  /\ vproc = [r \in Req |-> NoProc]
  /\ vpromise = [r \in Req |-> Pending]
  /\ stderr = [r \in Req |-> <<>>]
  /\ mproc = [r \in Req |-> NoProc]
  /\ mpromise = [r \in Req |-> Pending]
  /\ err = [r \in Req |-> NoErr]
  /\ stats = [r \in Req |-> -1]
  /\ commentsFilePath = [r \in Req |-> FALSE]
  /\ commentsContent = [r \in Req |-> "undefined"]
  /\ result = [r \in Req |-> NoResult]
  /\ stream = [r \in Req |-> "none"]
  /\ hClose = [r \in Req |-> "idle"]
  /\ hError = [r \in Req |-> "idle"]

\* No metadata file has been read.
InitSelection ==
  /\ jsonContent = <<>>
  /\ comments = <<>>
  /\ topComments = <<>>
  /\ commentText = <<>>
  /\ textContent = <<>>
  /\ finalContent = <<>>

\* ------------------------------------------------- HTTP layer: the values
\* The client address, X-API-Key header values ("" when the header is absent)
\* and the keys configured in API_KEYS.
Ips == {"10.0.0.1"}
NoKey == ""
ConfiguredKeys == {"test-key-123", "test-key-456"}
Keys == {NoKey, "invalid-key"} \cup ConfiguredKeys

\* A url field: absent, or a string given by its pieces.
MissingUrl == [present |-> FALSE, scheme |-> "", host |-> <<>>, path |-> <<>>]
Url(scheme, host, path) ==
  [present |-> TRUE, scheme |-> scheme, host |-> host, path |-> path]
Urls ==
  {MissingUrl,
   Url("", <<"not-a-url">>, <<>>),
   Url("https://", <<"www.", "youtube.com">>, <<"/watch?v=123">>),
   Url("https://", <<"www.", "tiktok.com">>, <<"/@user/video/123">>),
   Url("https://", <<"www.not", "tiktok.com">>, <<"/video/1">>),
   Url("https://", <<"example.com">>, <<"/", "tiktok.com">>)}

\* process.env with the throttler's two variables unset and the keys of the
\* test configuration.  API_KEYS is a text given by its pieces: commas,
\* blanks and key texts.
NoEnv == [THROTTLE_TTL |-> "", THROTTLE_LIMIT |-> "",
          API_KEYS |-> <<"test-key-123", ",", "test-key-456">>]
Envs == {NoEnv, [NoEnv EXCEPT !.THROTTLE_TTL = "30000", !.THROTTLE_LIMIT = "2"]}

\* Values of API_KEYS: unset or empty, blank entries only, two keys with
\* blanks around them, one key followed by a blank.
ApiKeysConfigs ==
  {<<>>, <<",", " ", ",">>,
   <<" ", "test-key-123", " ", ",", " ", "test-key-456">>,
   <<"test-key-456", " ">>}

NoRequest ==
  [ip |-> "none", key |-> "none", url |-> MissingUrl, status |-> 0,
   message |-> {}, called |-> FALSE, totalHits |-> 0]

\* No request has arrived.
InitHttp ==
  /\ now = 0
  /\ storage = [ip \in Ips |-> <<>>]
  /\ keyHits = [k \in Keys |-> <<>>]
  /\ served = 0
  /\ last = NoRequest

Init ==
  /\ InitRequests
  /\ InitSelection
  /\ env = NoEnv
  /\ InitHttp
  /\ InitTransport
  /\ cookiesBrowser = ""
  /\ InitArgs

\* ------------------------------------------------------ executeYtDlp
\* Lines 52-60 and 136-171: mint the id, derive outputPath, spawn yt-dlp.
DownloadVideo(r) ==
  /\ pc[r] = "Started"
  /\ pc' = [pc EXCEPT ![r] = "Downloading"]
  /\ vproc' = [vproc EXCEPT ![r] = [NoProc EXCEPT !.st = "spawned"]]
  /\ UNCHANGED <<fs, vpromise, stderr, mproc, mpromise, err, stats,
                 commentsFilePath, commentsContent, result, stream, hClose, hError>>
  /\ UNCHANGED <<xvars, hvars, cvars>>

\* Lines 169-171: ytDlp.stderr.on('data'): stderr += data.
VideoStderrData(r, chunk) ==
  /\ vproc[r].st = "spawned"
  /\ Len(stderr[r]) < MaxStderr
  /\ stderr' = [stderr EXCEPT ![r] = Append(@, chunk)]
  /\ UNCHANGED <<pc, fs, vproc, vpromise, mproc, mpromise, err, stats,
                 commentsFilePath, commentsContent, result, stream, hClose, hError>>
  /\ UNCHANGED <<xvars, hvars, cvars>>

\* VideoProcError with the handler missing: the promise is left to 'close'.
VideoProcError_NoReject(r) ==
  /\ vproc[r].st = "spawned"
  /\ stderr[r] = <<>>
  /\ vproc' = [vproc EXCEPT ![r] = [NoProc EXCEPT !.st = "errored"]]
  /\ UNCHANGED <<pc, fs, vpromise, stderr, mproc, mpromise, err, stats,
                 commentsFilePath, commentsContent, result, stream, hClose, hError>>
  /\ UNCHANGED <<xvars, hvars, cvars>>

\* Lines 173-180: ytDlp.on('error'): the binary could not be started.
VideoProcError(r) ==
  /\ vproc[r].st = "spawned"
  /\ stderr[r] = <<>>
  /\ vproc' = [vproc EXCEPT ![r] = [NoProc EXCEPT !.st = "errored"]]
  /\ vpromise' = [vpromise EXCEPT ![r] =
        Settle(@, Rejected(Err("InternalServerError", <<MsgSpawn, MsgSpawnErrno>>)))]
  /\ UNCHANGED <<pc, fs, stderr, mproc, mpromise, err, stats,
                 commentsFilePath, commentsContent, result, stream, hClose, hError>>
  /\ UNCHANGED <<xvars, hvars, cvars>>

\* ClassifyStderr with the login test moved in front of the others.
ClassifyStderr_LoginFirst(s) ==
  IF Includes(s, MarkerLogin) \/ Includes(s, MarkerCookies)
       THEN BadRequestException(MsgAuth)
  ELSE IF Includes(s, MarkerUnavailable) THEN BadRequestException(MsgUnavailable)
  ELSE IF Includes(s, MarkerUnsupported) THEN BadRequestException(MsgUnsupported)
  ELSE IF Includes(s, Marker404) THEN BadRequestException(MsgNotFound)
  ELSE Err("InternalServerError",
           <<MsgDownloadFailed>> \o (IF s = <<>> THEN <<MsgUnknown>> ELSE s))

\* ClassifyStderr testing only one of the two login markers.
ClassifyStderr_OneLoginMarker(s) ==
  IF Includes(s, MarkerUnavailable) THEN BadRequestException(MsgUnavailable)
  ELSE IF Includes(s, MarkerUnsupported) THEN BadRequestException(MsgUnsupported)
  ELSE IF Includes(s, Marker404) THEN BadRequestException(MsgNotFound)
  ELSE IF Includes(s, MarkerLogin) THEN BadRequestException(MsgAuth)
  ELSE Err("InternalServerError",
           <<MsgDownloadFailed>> \o (IF s = <<>> THEN <<MsgUnknown>> ELSE s))

\* ClassifyStderr reporting the marker that comes first in stderr.
ClassifyStderr_ByPosition(s) ==
  LET marks == {MarkerUnavailable, MarkerUnsupported, Marker404, MarkerLogin, MarkerCookies}
      at == {i \in 1..Len(s) : s[i] \in marks}
      first == IF at = {} THEN "none" ELSE s[CHOOSE i \in at : \A j \in at : i <= j]
  IN CASE first = MarkerUnavailable -> BadRequestException(MsgUnavailable)
       [] first = MarkerUnsupported -> BadRequestException(MsgUnsupported)
       [] first = Marker404 -> BadRequestException(MsgNotFound)
       [] first \in {MarkerLogin, MarkerCookies} -> BadRequestException(MsgAuth)
       [] OTHER -> Err("InternalServerError",
                       <<MsgDownloadFailed>> \o (IF s = <<>> THEN <<MsgUnknown>> ELSE s))

\* ClassifyStderr without the `|| 'Unknown error'` fallback.
ClassifyStderr_NoFallback(s) ==
  IF Includes(s, MarkerUnavailable) THEN BadRequestException(MsgUnavailable)
  ELSE IF Includes(s, MarkerUnsupported) THEN BadRequestException(MsgUnsupported)
  ELSE IF Includes(s, Marker404) THEN BadRequestException(MsgNotFound)
  ELSE IF Includes(s, MarkerLogin) \/ Includes(s, MarkerCookies)
       THEN BadRequestException(MsgAuth)
  ELSE Err("InternalServerError", <<MsgDownloadFailed>> \o s)

\* Lines 189-208: the error a nonzero exit is turned into.
ClassifyStderr(s) ==
  IF Includes(s, MarkerUnavailable) THEN BadRequestException(MsgUnavailable)
  ELSE IF Includes(s, MarkerUnsupported) THEN BadRequestException(MsgUnsupported)
  ELSE IF Includes(s, Marker404) THEN BadRequestException(MsgNotFound)
  ELSE IF Includes(s, MarkerLogin) \/ Includes(s, MarkerCookies)
       THEN BadRequestException(MsgAuth)
  ELSE Err("InternalServerError",
           <<MsgDownloadFailed>> \o (IF s = <<>> THEN <<MsgUnknown>> ELSE s))

\* VideoCloseOutcome of a close handler that looks at stderr first: an exit
\* 0 with text on stderr is taken for a failure.
VideoCloseOutcome_StderrFirst(code, s) ==
  IF code = "0" /\ s = <<>> THEN Resolved ELSE Rejected(ClassifyStderr(s))

\* VideoCloseOutcome of a close handler without the reject branch.
VideoCloseOutcome_NoReject(code, s) ==
  IF code = "0" THEN Resolved ELSE Pending

\* Lines 182-210: what the close handler settles the promise with.
VideoCloseOutcome(code, s) ==
  IF code = "0" THEN Resolved ELSE Rejected(ClassifyStderr(s))

\* Lines 182-210: ytDlp.on('close').  The process has ended, leaving under
\* the name <id><ext> no file (size -1), an empty file or a file of `size`
\* units; after a failed spawn the close event carries the errno and no file.
VideoProcCloseAt(r, code, size, ext) ==
  /\ \/ vproc[r].st = "spawned" /\ code \in RunCodes
     \/ vproc[r].st = "errored" /\ code = SpawnFailCode /\ size = -1
  /\ vproc' = [vproc EXCEPT ![r] =
        [st |-> IF @.st = "errored" THEN "failed" ELSE "closed", code |-> code,
         wrote |-> size, ext |-> IF size >= 0 THEN ext ELSE "none"]]
  /\ fs' = IF size >= 0
             THEN [fs EXCEPT ![<<r, ext>>] = [size |-> size, data |-> "video"]]
             ELSE fs
  /\ vpromise' = [vpromise EXCEPT ![r] = Settle(@, VideoCloseOutcome(code, stderr[r]))]
  /\ UNCHANGED <<pc, stderr, mproc, mpromise, err, stats,
                 commentsFilePath, commentsContent, result, stream, hClose, hError>>
  /\ UNCHANGED <<xvars, hvars, cvars>>

\* Lines 138-148: the close event of an invocation that honours `-o
\* outputPath`: what it writes, it writes at <id>.mp4.
VideoProcClose(r, code, size) == VideoProcCloseAt(r, code, size, ".mp4")

\* AwaitExecuteYtDlp racing the promise against a timer: when the timer
\* fires first, the catch block is entered while the binary still runs.
AwaitExecuteYtDlp_Timeout(r) ==
  /\ pc[r] = "Downloading"
  /\ IF vpromise[r].st = "resolved"
       THEN /\ pc' = [pc EXCEPT ![r] = "Locating"]
            /\ err' = err
       ELSE /\ pc' = [pc EXCEPT ![r] = "Catch"]
            /\ err' = [err EXCEPT ![r] =
                  IF vpromise[r].st = "pending"
                    THEN Err("InternalServerError", <<MsgSpawn>>)
                    ELSE vpromise[r].e]
  /\ UNCHANGED <<fs, vproc, vpromise, stderr, mproc, mpromise, stats,
                 commentsFilePath, commentsContent, result, stream, hClose, hError>>
  /\ UNCHANGED <<xvars, hvars, cvars>>

\* AwaitExecuteYtDlp with the `await` missing: downloadVideo goes on to the
\* stat while the invocation may still be running.
AwaitExecuteYtDlp_NoAwait(r) ==
  /\ pc[r] = "Downloading"
  /\ pc' = [pc EXCEPT ![r] = "Locating"]
  /\ UNCHANGED <<fs, vproc, vpromise, stderr, mproc, mpromise, err, stats,
                 commentsFilePath, commentsContent, result, stream, hClose, hError>>
  /\ UNCHANGED <<xvars, hvars, cvars>>

\* Line 60: `await this.executeYtDlp(...)` resumes once the promise settled.
AwaitExecuteYtDlp(r) ==
  /\ pc[r] = "Downloading"
  /\ vpromise[r].st # "pending"
  /\ IF vpromise[r].st = "resolved"
       THEN /\ pc' = [pc EXCEPT ![r] = "Locating"]
            /\ err' = err
       ELSE /\ pc' = [pc EXCEPT ![r] = "Catch"]
            /\ err' = [err EXCEPT ![r] = vpromise[r].e]
  /\ UNCHANGED <<fs, vproc, vpromise, stderr, mproc, mpromise, stats,
                 commentsFilePath, commentsContent, result, stream, hClose, hError>>
  /\ UNCHANGED <<xvars, hvars, cvars>>

\* StatInvalid without the size test.
StatInvalid_NoSizeTest(f) == FALSE

\* Line 64: the test on the stat result (only regular files are ever
\* written to the output directory, so isFile() is true of what exists).
StatInvalid(f) == f.size = 0

\* ArtifactPath searching the names a video may have been left under:
\* the first that exists with nonzero size, outputPath when there is none.
ArtifactPath_Candidates(f, r) ==
  IF Exists(f, <<r, "">>) /\ f[<<r, "">>].size > 0 THEN <<r, "">>
  ELSE IF Exists(f, <<r, ".mp4">>) /\ f[<<r, ".mp4">>].size > 0 THEN <<r, ".mp4">>
  ELSE IF Exists(f, <<r, ".webm">>) /\ f[<<r, ".webm">>].size > 0 THEN <<r, ".webm">>
  ELSE IF Exists(f, <<r, ".mkv">>) /\ f[<<r, ".mkv">>].size > 0 THEN <<r, ".mkv">>
  ELSE OutputPath(r)

\* Lines 54 and 63: the path whose stat decides whether there is an
\* artifact: outputPath, whatever the directory `f` holds.
ArtifactPath(f, r) == OutputPath(r)

\* Lines 62-72, 214-228, 294-330: stat outputPath, validate, then enter
\* extractComments, which spawns the metadata invocation.
StatOutput(r) ==
  /\ pc[r] = "Locating"
  /\ IF ~Exists(fs, ArtifactPath(fs, r))
       THEN /\ pc' = [pc EXCEPT ![r] = "Catch"]
            /\ err' = [err EXCEPT ![r] = Err("Error", <<MsgStatEnoent>>)]
            /\ UNCHANGED <<stats, mproc>>
       ELSE IF StatInvalid(fs[ArtifactPath(fs, r)])
       THEN /\ pc' = [pc EXCEPT ![r] = "Catch"]
            /\ err' = [err EXCEPT ![r] = BadRequestException(MsgInvalidFile)]
            /\ UNCHANGED <<stats, mproc>>
       ELSE /\ pc' = [pc EXCEPT ![r] = "ExtractingComments"]
            /\ stats' = [stats EXCEPT ![r] = fs[ArtifactPath(fs, r)].size]
            /\ mproc' = [mproc EXCEPT ![r] = [NoProc EXCEPT !.st = "spawned"]]
            /\ err' = err
  /\ UNCHANGED <<fs, vproc, vpromise, stderr, mpromise,
                 commentsFilePath, commentsContent, result, stream, hClose, hError>>
  /\ UNCHANGED <<xvars, hvars, cvars>>

\* CaughtToThrown of a catch block that rethrows what it caught.
CaughtToThrown_Rethrow(e) ==
  [NoResult EXCEPT !.outcome = "thrown",
                   !.status = IF e.type = "BadRequest" THEN 400 ELSE 500,
                   !.msg = e.msg]

\* CaughtToThrown without the instanceof test: everything is wrapped.
CaughtToThrown_WrapAll(e) ==
  [NoResult EXCEPT !.outcome = "thrown", !.status = 500, !.msg = <<MsgWrap>> \o e.msg]

\* Lines 125-132: what the outer catch throws to the caller.
CaughtToThrown(e) ==
  IF e.type = "BadRequest"
    THEN [NoResult EXCEPT !.outcome = "thrown", !.status = 400, !.msg = e.msg]
    ELSE [NoResult EXCEPT !.outcome = "thrown", !.status = 500,
                          !.msg = <<MsgWrap>> \o e.msg]

\* CatchCleanup of a downloadVideo that tries again after a failure.
CatchCleanup_Retry(r) ==
  /\ pc[r] = "Catch"
  /\ fs' = IF UnlinkOk(fs, OutputPath(r)) THEN Unlink(fs, OutputPath(r)) ELSE fs
  /\ result' = [result EXCEPT ![r] = CaughtToThrown(err[r])]
  /\ pc' = [pc EXCEPT ![r] = "Started"]
  /\ UNCHANGED <<vproc, vpromise, stderr, mproc, mpromise, err, stats,
                 commentsFilePath, commentsContent, stream, hClose, hError>>
  /\ UNCHANGED <<xvars, hvars, cvars>>

\* CatchCleanup without the inner try/catch: a failed unlink replaces the
\* error that was caught.
CatchCleanup_UnlinkMasks(r) ==
  /\ pc[r] = "Catch"
  /\ fs' = IF UnlinkOk(fs, OutputPath(r)) THEN Unlink(fs, OutputPath(r)) ELSE fs
  /\ result' = [result EXCEPT ![r] =
        IF UnlinkOk(fs, OutputPath(r))
          THEN CaughtToThrown(err[r])
          ELSE CaughtToThrown(Err("Error", <<"ENOENT: no such file or directory, unlink">>))]
  /\ pc' = [pc EXCEPT ![r] = "Failed"]
  /\ UNCHANGED <<vproc, vpromise, stderr, mproc, mpromise, err, stats,
                 commentsFilePath, commentsContent, stream, hClose, hError>>
  /\ UNCHANGED <<xvars, hvars, cvars>>

\* Lines 119-133: outer catch: best-effort unlink of outputPath, rethrow.
CatchCleanup(r) ==
  /\ pc[r] = "Catch"
  /\ fs' = IF UnlinkOk(fs, OutputPath(r)) THEN Unlink(fs, OutputPath(r)) ELSE fs
  /\ result' = [result EXCEPT ![r] = CaughtToThrown(err[r])]
  /\ pc' = [pc EXCEPT ![r] = "Failed"]
  /\ UNCHANGED <<vproc, vpromise, stderr, mproc, mpromise, err, stats,
                 commentsFilePath, commentsContent, stream, hClose, hError>>
  /\ UNCHANGED <<xvars, hvars, cvars>>

\* ------------------------------------------------ executeYtDlpComments
\* What the metadata invocation can leave in <id>.info.json: text that is
\* not JSON, JSON without comments (field absent or empty), JSON whose
\* comments lack a text, JSON with at least one well-formed comment.
InfoContents == {"malformed", "nocomments", "badcomments", "comments"}

\* Lines 332-335: ytDlp.on('error') of the metadata invocation: reject(error).
MetaProcError(r) ==
  /\ mproc[r].st = "spawned"
  /\ mproc' = [mproc EXCEPT ![r] = [NoProc EXCEPT !.st = "errored"]]
  /\ mpromise' = [mpromise EXCEPT ![r] = Settle(@, Rejected(Err("Error", <<MsgSpawnErrno>>)))]
  /\ UNCHANGED <<pc, fs, vproc, vpromise, stderr, err, stats,
                 commentsFilePath, commentsContent, result, stream, hClose, hError>>
  /\ UNCHANGED <<xvars, hvars, cvars>>

\* MetaCloseOutcome rejecting on a nonzero exit, as executeYtDlp does.
MetaCloseOutcome_RejectNonzero(code) ==
  IF code = "0" THEN Resolved ELSE Rejected(Err("Error", <<MsgDownloadFailed, MsgUnknown>>))

\* Lines 337-348: what the close handler settles the promise with.
MetaCloseOutcome(code) == Resolved

\* Lines 337-348: ytDlp.on('close') of the metadata invocation.  The process
\* has ended leaving <id>.info.json with `info`, or no file ("none").
MetaProcClose(r, code, info) ==
  /\ \/ mproc[r].st = "spawned" /\ code \in RunCodes
     \/ mproc[r].st = "errored" /\ code = SpawnFailCode /\ info = "none"
  /\ mproc' = [mproc EXCEPT ![r] =
        [st |-> IF @.st = "errored" THEN "failed" ELSE "closed", code |-> code,
         wrote |-> IF info = "none" THEN -1 ELSE 1,
         ext |-> IF info = "none" THEN "none" ELSE ".info.json"]]
  /\ fs' = IF info # "none"
             THEN [fs EXCEPT ![CommentsJsonPath(r)] = [size |-> 1, data |-> info]]
             ELSE fs
  /\ mpromise' = [mpromise EXCEPT ![r] = Settle(@, MetaCloseOutcome(code))]
  /\ UNCHANGED <<pc, vproc, vpromise, stderr, err, stats,
                 commentsFilePath, commentsContent, result, stream, hClose, hError>>
  /\ UNCHANGED <<xvars, hvars, cvars>>

\* ------------------------------------------------------ extractComments
\* fs.unlink(p).catch(() => {})
BestEffortUnlink(f, p) == IF UnlinkOk(f, p) THEN Unlink(f, p) ELSE f

\* How fs.readFile / fs.writeFile end in one run of extractComments.
IoOutcomes == {"ok", "readFail", "writeFail", "writeFailPartial"}

\* ExtractPath without the `comments.length === 0` test of line 247.
ExtractPath_NoEmptyTest(f, r, p, io) ==
  IF p.st = "rejected" THEN "catch"
  ELSE IF ~Exists(f, CommentsJsonPath(r)) THEN "nofile"
  ELSE IF io = "readFail" THEN "catch"
  ELSE IF f[CommentsJsonPath(r)].data = "malformed" THEN "catch"
  ELSE IF f[CommentsJsonPath(r)].data = "badcomments" THEN "catch"
  ELSE IF io \in {"writeFail", "writeFailPartial"} THEN "catch"
  ELSE "written"

\* Lines 224-291: the path extractComments takes, given the settled promise
\* `p` of the metadata invocation: "catch" (285-291), "nofile" (236-239),
\* "empty" (247-251) or "written" (253-284).
ExtractPath(f, r, p, io) ==
  IF p.st = "rejected" THEN "catch"
  ELSE IF ~Exists(f, CommentsJsonPath(r)) THEN "nofile"
  ELSE IF io = "readFail" THEN "catch"
  ELSE IF f[CommentsJsonPath(r)].data = "malformed" THEN "catch"
  ELSE IF f[CommentsJsonPath(r)].data = "nocomments" THEN "empty"
  ELSE IF f[CommentsJsonPath(r)].data = "badcomments" THEN "catch"
  ELSE IF io \in {"writeFail", "writeFailPartial"} THEN "catch"
  ELSE "written"

\* ExtractCatch that leaves the metadata file behind.
ExtractCatch_KeepJson(f, r) == BestEffortUnlink(f, CommentsTxtPath(r))

\* ExtractCatch removing the video file as well.
ExtractCatch_AlsoVideo(f, r) ==
  BestEffortUnlink(
    BestEffortUnlink(BestEffortUnlink(f, OutputPath(r)), CommentsJsonPath(r)),
    CommentsTxtPath(r))

\* Lines 285-291: the catch block of extractComments.
ExtractCatch(f, r) ==
  BestEffortUnlink(BestEffortUnlink(f, CommentsJsonPath(r)), CommentsTxtPath(r))

\* Lines 275-278: write the text file, then drop the metadata file.
ExtractWrite(f, r) ==
  BestEffortUnlink([f EXCEPT ![CommentsTxtPath(r)] = [size |-> 1, data |-> "comments"]],
                   CommentsJsonPath(r))

\* Lines 224-291: the output directory when extractComments returns.
ExtractFs(f, r, p, io) ==
  LET path == ExtractPath(f, r, p, io)
      \* a failed writeFile may leave a partial file behind
      g == IF path = "catch" /\ p.st # "rejected" /\ io = "writeFailPartial"
              /\ Exists(f, CommentsJsonPath(r))
              /\ f[CommentsJsonPath(r)].data = "comments"
             THEN [f EXCEPT ![CommentsTxtPath(r)] = [size |-> 0, data |-> "partial"]]
             ELSE f
  IN CASE path = "catch" -> ExtractCatch(g, r)
       [] path = "nofile" -> f
       [] path = "empty" -> BestEffortUnlink(f, CommentsJsonPath(r))
       [] path = "written" -> ExtractWrite(f, r)

\* ExtractComments whose catch block rethrows instead of returning null.
ExtractComments_Rethrow(r, io) ==
  /\ pc[r] = "ExtractingComments"
  /\ mpromise[r].st # "pending"
  /\ fs' = ExtractFs(fs, r, mpromise[r], io)
  /\ commentsFilePath' = [commentsFilePath EXCEPT ![r] =
        (ExtractPath(fs, r, mpromise[r], io) = "written")]
  /\ IF ExtractPath(fs, r, mpromise[r], io) = "catch"
       THEN /\ pc' = [pc EXCEPT ![r] = "Catch"]
            /\ err' = [err EXCEPT ![r] = Err("Error", <<MsgSpawnErrno>>)]
       ELSE /\ pc' = [pc EXCEPT ![r] = "ReadBack"]
            /\ err' = err
  /\ UNCHANGED <<vproc, vpromise, stderr, mproc, mpromise, stats,
                 commentsContent, result, stream, hClose, hError>>
  /\ UNCHANGED <<xvars, hvars, cvars>>

\* Lines 72 and 224-291: `await this.extractComments(url, videoId)` once the
\* metadata invocation settled; its return value lands in commentsFilePath.
ExtractComments(r, io) ==
  /\ pc[r] = "ExtractingComments"
  /\ mpromise[r].st # "pending"
  /\ fs' = ExtractFs(fs, r, mpromise[r], io)
  /\ commentsFilePath' = [commentsFilePath EXCEPT ![r] =
        (ExtractPath(fs, r, mpromise[r], io) = "written")]
  /\ pc' = [pc EXCEPT ![r] = "ReadBack"]
  /\ UNCHANGED <<vproc, vpromise, stderr, mproc, mpromise, err, stats,
                 commentsContent, result, stream, hClose, hError>>
  /\ UNCHANGED <<xvars, hvars, cvars>>

\* Lines 73-78: read the comments file back; a failure is caught and logged.
ReadBack(path, readOk) ==
  IF path /\ readOk THEN "comments" ELSE "undefined"

\* Lines 112-118: the DownloadResult.
MakeResult(size, path, content) ==
  [NoResult EXCEPT !.outcome = "returned", !.size = size,
                   !.commentsFile = path, !.commentsContent = content]

\* Lines 73-118: read back, open the read stream on outputPath, register
\* the two handlers, return the result.
ReadBackAndReturn(r, readOk) ==
  /\ pc[r] = "ReadBack"
  /\ commentsContent' = [commentsContent EXCEPT ![r] = ReadBack(commentsFilePath[r], readOk)]
  /\ stream' = [stream EXCEPT ![r] = "open"]
  /\ result' = [result EXCEPT ![r] =
        MakeResult(stats[r], commentsFilePath[r], ReadBack(commentsFilePath[r], readOk))]
  /\ pc' = [pc EXCEPT ![r] = "Streaming"]
  /\ UNCHANGED <<fs, vproc, vpromise, stderr, mproc, mpromise, err, stats,
                 commentsFilePath, hClose, hError>>
  /\ UNCHANGED <<xvars, hvars, cvars>>

\* ------------------------------------------------------------ controller
\* `if (result.commentsContent)`: undefined and '' are falsy.
Truthy(content) == content \notin {"undefined", ""}

\* Controller lines 94-98: the headers every successful response has.
BaseHeaders(res, r) ==
  [h \in {"Content-Type", "Content-Disposition", "Content-Length"} |->
     CASE h = "Content-Type" -> <<"video/mp4">>
       [] h = "Content-Disposition" -> <<"attachment; filename=", "tiktok_", r, ".mp4">>
       [] h = "Content-Length" -> <<res.size>>]

\* Controller lines 102-106: the headers that carry the comments.
CommentsHeadersOf(res, r) ==
  [h \in {"X-Comments-Available", "X-Comments-Data", "X-Comments-Filename"} |->
     CASE h = "X-Comments-Available" -> <<"true">>
       [] h = "X-Comments-Data" -> <<"base64", res.commentsContent>>
       [] h = "X-Comments-Filename" -> <<"tiktok_", r, "_comments.txt">>]

\* ResponseHeaders testing the comments file instead of the text read
\* back from it.
ResponseHeaders_FromFile(res, r) ==
  IF res.commentsFile THEN BaseHeaders(res, r) @@ CommentsHeadersOf(res, r)
  ELSE BaseHeaders(res, r)

\* Controller lines 94-108: the headers of a successful response.
ResponseHeaders(res, r) ==
  IF Truthy(res.commentsContent) THEN BaseHeaders(res, r) @@ CommentsHeadersOf(res, r)
  ELSE BaseHeaders(res, r)

\* Controller lines 88-118: what the handler answers once downloadVideo
\* settled: 200 (@HttpCode) with the headers and the stream, or the error
\* rethrown as it was caught.
HandlerResponse(res, r) ==
  IF res.outcome = "returned"
    THEN [status |-> 200, headers |-> ResponseHeaders(res, r), body |-> "stream",
          error |-> <<>>]
    ELSE [status |-> res.status, headers |-> <<>>, body |-> "error", error |-> res.msg]

\* Controller lines 88-118: the continuation of `await downloadVideo(...)`.
ControllerRespond(r) ==
  /\ result[r].outcome # "none"
  /\ response[r] = NoResponse
  /\ response' = [response EXCEPT ![r] = HandlerResponse(result[r], r)]
  /\ UNCHANGED <<commentsData, commentsText, cookiesBrowser, videoArgs, metaArgs>>
  /\ UNCHANGED <<rvars, xvars, hvars>>

\* ------------------------------------------------------- stream lifecycle
\* The stream emits 'error' (a read failed); 'close' follows (autoDestroy).
\* Lines 100-103: the error handler starts and issues unlink(outputPath).
StreamError(r) ==
  /\ stream[r] = "open"
  /\ stream' = [stream EXCEPT ![r] = "errored"]
  /\ hError' = [hError EXCEPT ![r] = "unlinkVideo"]
  /\ UNCHANGED <<pc, fs, vproc, vpromise, stderr, mproc, mpromise, err, stats,
                 commentsFilePath, commentsContent, result, hClose>>
  /\ UNCHANGED <<xvars, hvars, cvars>>

\* The stream emits 'close' (end of file, destroy, or after an error).
\* Lines 84-86: the close handler starts and issues unlink(outputPath).
StreamClose(r) ==
  /\ stream[r] \in {"open", "errored"}
  /\ stream' = [stream EXCEPT ![r] = "closed"]
  /\ hClose' = [hClose EXCEPT ![r] = "unlinkVideo"]
  /\ UNCHANGED <<pc, fs, vproc, vpromise, stderr, mproc, mpromise, err, stats,
                 commentsFilePath, commentsContent, result, hError>>
  /\ UNCHANGED <<xvars, hvars, cvars>>

\* AfterVideoUnlink of a handler that forgets the comments file.
AfterVideoUnlink_VideoOnly(ok, path) == "done"

\* AfterVideoUnlink of a handler without try/catch: the rejection of a
\* failed unlink escapes the handler.
AfterVideoUnlink_Escapes(ok, path) ==
  IF ~ok THEN "unhandled" ELSE IF path THEN "unlinkComments" ELSE "done"

\* Lines 86-96 / 103-107: where a handler goes once unlink(outputPath)
\* settled: on to the comments file when it succeeded and there is one,
\* to its end otherwise (the catch block).
AfterVideoUnlink(ok, path) ==
  IF ok /\ path THEN "unlinkComments" ELSE "done"

\* Lines 85-96: close handler, `await fs.unlink(outputPath)`.
CloseHandlerUnlinkVideo(r) ==
  /\ hClose[r] = "unlinkVideo"
  /\ fs' = BestEffortUnlink(fs, OutputPath(r))
  /\ hClose' = [hClose EXCEPT ![r] =
        AfterVideoUnlink(UnlinkOk(fs, OutputPath(r)), commentsFilePath[r])]
  /\ UNCHANGED <<pc, vproc, vpromise, stderr, mproc, mpromise, err, stats,
                 commentsFilePath, commentsContent, result, stream, hError>>
  /\ UNCHANGED <<xvars, hvars, cvars>>

\* Lines 90-93: close handler, `await fs.unlink(commentsFilePath).catch(...)`.
CloseHandlerUnlinkComments(r) ==
  /\ hClose[r] = "unlinkComments"
  /\ fs' = BestEffortUnlink(fs, CommentsTxtPath(r))
  /\ hClose' = [hClose EXCEPT ![r] = "done"]
  /\ UNCHANGED <<pc, vproc, vpromise, stderr, mproc, mpromise, err, stats,
                 commentsFilePath, commentsContent, result, stream, hError>>
  /\ UNCHANGED <<xvars, hvars, cvars>>

\* Lines 102-107: error handler, `await fs.unlink(outputPath)`.
ErrorHandlerUnlinkVideo(r) ==
  /\ hError[r] = "unlinkVideo"
  /\ fs' = BestEffortUnlink(fs, OutputPath(r))
  /\ hError' = [hError EXCEPT ![r] =
        AfterVideoUnlink(UnlinkOk(fs, OutputPath(r)), commentsFilePath[r])]
  /\ UNCHANGED <<pc, vproc, vpromise, stderr, mproc, mpromise, err, stats,
                 commentsFilePath, commentsContent, result, stream, hClose>>
  /\ UNCHANGED <<xvars, hvars, cvars>>

\* Lines 104-106: error handler, `await fs.unlink(commentsFilePath).catch(...)`.
ErrorHandlerUnlinkComments(r) ==
  /\ hError[r] = "unlinkComments"
  /\ fs' = BestEffortUnlink(fs, CommentsTxtPath(r))
  /\ hError' = [hError EXCEPT ![r] = "done"]
  /\ UNCHANGED <<pc, vproc, vpromise, stderr, mproc, mpromise, err, stats,
                 commentsFilePath, commentsContent, result, stream, hClose>>
  /\ UNCHANGED <<xvars, hvars, cvars>>

\* ---------------------------------------------------------- specification
\* The steps of request r other than the output of its video invocation:
\* events of its processes and of its stream, continuations of its awaits.
Quiet(r) ==
  \/ DownloadVideo(r)
  \/ VideoProcError(r)
  \/ AwaitExecuteYtDlp(r)
  \/ StatOutput(r)
  \/ CatchCleanup(r)
  \/ MetaProcError(r)
  \/ \E code \in RunCodes \cup {SpawnFailCode}, info \in InfoContents \cup {"none"} :
       MetaProcClose(r, code, info)
  \/ \E io \in IoOutcomes : ExtractComments(r, io)
  \/ \E readOk \in BOOLEAN : ReadBackAndReturn(r, readOk)
  \/ StreamError(r)
  \/ StreamClose(r)
  \/ CloseHandlerUnlinkVideo(r)
  \/ CloseHandlerUnlinkComments(r)
  \/ ErrorHandlerUnlinkVideo(r)
  \/ ErrorHandlerUnlinkComments(r)

Step(r) ==
  \/ Quiet(r)
  \/ ControllerRespond(r)
  \/ \E chunk \in StderrChunks : VideoStderrData(r, chunk)
  \/ \E code \in RunCodes \cup {SpawnFailCode}, size \in -1..MaxSize :
       VideoProcClose(r, code, size)

\* Spec: one request, every input of the environment.
Next == \E r \in {"id1"} : Step(r)

Spec == Init /\ [][Next]_vars

\* SpecLive: Spec under the assumptions that a spawned subprocess eventually
\* emits close or error, that a returned stream is eventually closed or
\* errors, and that the event loop eventually runs every continuation and
\* handler that is ready.  Nothing is assumed about stderr chunks.
ProcessSettles(r) ==
  \/ VideoProcError(r)
  \/ \E code \in RunCodes \cup {SpawnFailCode}, size \in -1..MaxSize :
       VideoProcClose(r, code, size)
  \/ MetaProcError(r)
  \/ \E code \in RunCodes \cup {SpawnFailCode}, info \in InfoContents \cup {"none"} :
       MetaProcClose(r, code, info)

StreamEnds(r) == StreamError(r) \/ StreamClose(r)

Continues(r) ==
  \/ AwaitExecuteYtDlp(r)
  \/ StatOutput(r)
  \/ CatchCleanup(r)
  \/ \E io \in IoOutcomes : ExtractComments(r, io)
  \/ \E readOk \in BOOLEAN : ReadBackAndReturn(r, readOk)
  \/ ControllerRespond(r)
  \/ CloseHandlerUnlinkVideo(r)
  \/ CloseHandlerUnlinkComments(r)
  \/ ErrorHandlerUnlinkVideo(r)
  \/ ErrorHandlerUnlinkComments(r)

Fairness ==
  /\ WF_vars(ProcessSettles("id1"))
  /\ WF_vars(StreamEnds("id1"))
  /\ WF_vars(Continues("id1"))

SpecLive == Init /\ [][Next]_vars /\ Fairness

\* SpecFs: Spec in an environment where fs.unlink(outputPath) may reject
\* although the file is there (EPERM, EBUSY, EIO): the handler that awaits
\* it goes to its catch block and the file stays.
HandlerUnlinkVideoRejects(r) ==
  /\ Exists(fs, OutputPath(r))
  /\ \/ /\ hClose[r] = "unlinkVideo"
        /\ hClose' = [hClose EXCEPT ![r] = AfterVideoUnlink(FALSE, commentsFilePath[r])]
        /\ UNCHANGED hError
     \/ /\ hError[r] = "unlinkVideo"
        /\ hError' = [hError EXCEPT ![r] = AfterVideoUnlink(FALSE, commentsFilePath[r])]
        /\ UNCHANGED hClose
  /\ UNCHANGED <<pc, fs, vproc, vpromise, stderr, mproc, mpromise, err, stats,
                 commentsFilePath, commentsContent, result, stream>>
  /\ UNCHANGED <<xvars, hvars, cvars>>

NextFs == \E r \in {"id1"} : Step(r) \/ HandlerUnlinkVideoRejects(r)

SpecFs == Init /\ [][NextFs]_vars

\* SpecTwo: two requests in flight at once.  To keep the product of the two
\* requests small the environment is narrowed: a video invocation writes at
\* most one chunk to stderr, and none when it exits 0 (yt-dlp runs with
\* --no-warnings).
TwoLimit ==
  \A r \in Req : /\ Len(stderr[r]) <= 1
                 /\ vproc[r].code = "0" => stderr[r] = <<>>

StepTwo(r) ==
  \/ Quiet(r)
  \/ \E chunk \in StderrChunks : VideoStderrData(r, chunk) /\ TwoLimit'
  \/ \E code \in RunCodes \cup {SpawnFailCode}, size \in -1..MaxSize :
       VideoProcClose(r, code, size) /\ TwoLimit'

NextTwo == \E r \in Req : StepTwo(r)

SpecTwo == Init /\ [][NextTwo]_vars

\* SpecLoc: one request, in an environment where the video invocation may
\* leave its file under any of the names of VideoExts.
StepLoc(r) ==
  \/ Quiet(r)
  \/ \E chunk \in StderrChunks : VideoStderrData(r, chunk)
  \/ \E code \in RunCodes \cup {SpawnFailCode}, size \in -1..MaxSize, ext \in VideoExts :
       VideoProcCloseAt(r, code, size, ext)

NextLoc == \E r \in {"id1"} : StepLoc(r)

SpecLoc == Init /\ [][NextLoc]_vars

\* ------------------------------------------ extractComments: the selection
\* A comment of the metadata file is a record [author, text, like_count].
\* A string is the sequence of its UTF-16 code units, which is what length
\* and substring count in.  like_count is optional (line 27): Undefined
\* stands for a comment without one.
Undefined == -1
TopCount == 15
MaxTextLength == 200
maxSize == 5000

\* '...', '\n\n', '. ' and ': ' of lines 263-267.
Ellipsis == <<46, 46, 46>>
Separator == <<10, 10>>
DotSpace == <<46, 32>>
ColonSpace == <<58, 32>>
\* Line 272: '\n\n[... comentários truncados devido ao tamanho]'.
TruncationNote ==
  <<10, 10, 91, 46, 46, 46, 32, 99, 111, 109, 101, 110, 116, 225, 114, 105,
    111, 115, 32, 116, 114, 117, 110, 99, 97, 100, 111, 115, 32, 100, 101,
    118, 105, 100, 111, 32, 97, 111, 32, 116, 97, 109, 97, 110, 104, 111, 93>>

\* String.prototype.substring(a, b) for 0 <= a <= b.
Substring(s, a, b) == SubSeq(s, a + 1, IF Len(s) < b THEN Len(s) ELSE b)

\* The decimal digits of n >= 0 in a template literal.
RECURSIVE ToDigits(_)
ToDigits(n) == IF n < 10 THEN <<48 + n>> ELSE ToDigits(n \div 10) \o <<48 + (n % 10)>>

\* Array.prototype.join.
RECURSIVE Join(_, _)
Join(items, sep) ==
  IF items = <<>> THEN <<>>
  ELSE IF Len(items) = 1 THEN items[1]
  ELSE Join(SubSeq(items, 1, Len(items) - 1), sep) \o sep \o items[Len(items)]

\* TruncateText cutting texts of exactly the limit as well.
TruncateText_AtLimit(text) ==
  IF Len(text) >= MaxTextLength THEN Substring(text, 0, MaxTextLength) \o Ellipsis ELSE text

\* Lines 262-264: `commentText`.
TruncateText(text) ==
  IF Len(text) > MaxTextLength THEN Substring(text, 0, MaxTextLength) \o Ellipsis ELSE text

\* FormatEntry numbering by `index` instead of `index + 1`.
FormatEntry_FromIndex(index, comment) ==
  ToDigits(index) \o DotSpace \o comment.author \o ColonSpace \o TruncateText(comment.text)

\* Line 265: the callback of map; index counts from 0.
FormatEntry(index, comment) ==
  ToDigits(index + 1) \o DotSpace \o comment.author \o ColonSpace \o TruncateText(comment.text)

\* LimitContent that cuts without appending the note.
LimitContent_NoNote(content) ==
  IF Len(content) > maxSize THEN Substring(content, 0, maxSize) ELSE content

\* Lines 270-273: `finalContent`.
LimitContent(content) ==
  IF Len(content) > maxSize THEN Substring(content, 0, maxSize) \o TruncationNote ELSE content

\* `x || 0` of line 255.
OrZero(n) == IF n = Undefined THEN 0 ELSE n

\* Line 255: the comparator handed to sort.
Compare(a, b) == OrZero(b.like_count) - OrZero(a.like_count)

\* InsertSorted of a sort that is not stable: x goes in front of its equals.
InsertSorted_Unstable(s, x) ==
  LET k == Cardinality({i \in 1..Len(s) : Compare(s[i], x) < 0})
  IN SubSeq(s, 1, k) \o <<x>> \o SubSeq(s, k + 1, Len(s))

\* One insertion of a stable sort: x goes behind every element the
\* comparator does not order after it.
InsertSorted(s, x) ==
  LET k == Cardinality({i \in 1..Len(s) : Compare(s[i], x) <= 0})
  IN SubSeq(s, 1, k) \o <<x>> \o SubSeq(s, k + 1, Len(s))

\* Lines 254-255: Array.prototype.sort, which is stable (ECMAScript 2019;
\* the service runs on Node.js 18+).
RECURSIVE Sort(_)
Sort(s) ==
  IF s = <<>> THEN <<>>
  ELSE InsertSorted(Sort(SubSeq(s, 1, Len(s) - 1)), s[Len(s)])

\* Line 256: slice(0, n).
Slice(s, n) == SubSeq(s, 1, IF Len(s) < n THEN Len(s) ELSE n)

\* The collections the selection is run on: every collection of up to
\* MaxExhaustive comments with like counts up to MaxLikes or none, and
\* longer ones, up to MaxComments, whose like counts follow a cycle.
LikeValues == {Undefined} \cup 0..MaxLikes
LikeValue(v) == IF v = 0 THEN Undefined ELSE v - 1
\* The author of the i-th comment of a collection, n >= 1 code units long:
\* its first unit ('A', 'B', ...) tells the comment's position in the file.
AuthorOf(i, n) == [k \in 1..n |-> IF k = 1 THEN 64 + i ELSE 97 + (k % 26)]
\* A text of n code units (lower-case letters that vary with the position).
TextOf(i, n) == [k \in 1..n |-> 97 + ((k + i) % 26)]
CommentsWith(likes) ==
  [i \in 1..Len(likes) |->
     [author |-> AuthorOf(i, 1), text |-> TextOf(i, 1), like_count |-> likes[i]]]
ExhaustiveLikes == UNION {[1..n -> LikeValues] : n \in 0..MaxExhaustive}
PatternLikes ==
  {[i \in 1..n |-> LikeValue((a * i + b) % (MaxLikes + 2))] :
     n \in (MaxExhaustive + 1)..MaxComments,
     a \in 0..(MaxLikes + 1), b \in 0..(MaxLikes + 1)}
\* Collections of one or two comments whose texts are empty or as long as
\* the limit of line 262, give or take MaxOver.
TextLens == {0} \cup ((MaxTextLength - MaxOver)..(MaxTextLength + MaxOver))
TextCollections ==
  {<<[author |-> AuthorOf(1, 2), text |-> TextOf(1, n), like_count |-> Undefined]>> :
     n \in TextLens}
  \cup
  {<<[author |-> AuthorOf(1, 2), text |-> TextOf(1, n), like_count |-> 1],
     [author |-> AuthorOf(2, 1), text |-> TextOf(2, m), like_count |-> Undefined]>> :
     n \in TextLens, m \in TextLens}
\* Collections of TopCount comments with texts at the limit and authors so
\* long that the joined block is 4999 code units with e = 0 and grows by
\* one with e.
CapCollections ==
  {[i \in 1..TopCount |->
      [author |-> AuthorOf(i, IF i = 1 THEN CapAuthorLen + e ELSE CapAuthorLen),
       text |-> TextOf(i, MaxTextLength), like_count |-> Undefined]] :
     e \in 0..(2 * MaxOver) \cup {maxSize}}
JsonContents ==
  {CommentsWith(l) : l \in ExhaustiveLikes \cup PatternLikes}
    \cup TextCollections \cup CapCollections

\* Lines 242-251: read and parse the metadata file; `comments` is its
\* collection.  With an empty collection extractComments returns here.
ParseComments ==
  /\ jsonContent # <<>>
  /\ comments = <<>> /\ topComments = <<>>
  /\ comments' = jsonContent
  /\ UNCHANGED <<jsonContent, topComments, commentText, textContent, finalContent>>
  /\ UNCHANGED <<rvars, hvars, cvars>>

\* Lines 253-256: sort `comments` in place, keep the first TopCount.
SortAndSlice ==
  /\ comments # <<>> /\ topComments = <<>>
  /\ comments' = Sort(comments)
  /\ topComments' = Slice(Sort(comments), TopCount)
  /\ UNCHANGED <<jsonContent, commentText, textContent, finalContent>>
  /\ UNCHANGED <<rvars, hvars, cvars>>

\* Lines 259-267: format each kept comment, join the entries.
FormatComments ==
  /\ topComments # <<>> /\ textContent = <<>>
  /\ commentText' = [k \in 1..Len(topComments) |-> TruncateText(topComments[k].text)]
  /\ textContent' =
       Join([k \in 1..Len(topComments) |-> FormatEntry(k - 1, topComments[k])], Separator)
  /\ UNCHANGED <<jsonContent, comments, topComments, finalContent>>
  /\ UNCHANGED <<rvars, hvars, cvars>>

\* Lines 269-275: cap the block; finalContent is what writeFile is given.
CapContent ==
  /\ textContent # <<>> /\ finalContent = <<>>
  /\ finalContent' = LimitContent(textContent)
  /\ UNCHANGED <<jsonContent, comments, topComments, commentText, textContent>>
  /\ UNCHANGED <<rvars, hvars, cvars>>

InitExtract ==
  /\ InitRequests
  /\ jsonContent \in JsonContents
  /\ comments = <<>>
  /\ topComments = <<>>
  /\ commentText = <<>>
  /\ textContent = <<>>
  /\ finalContent = <<>>
  /\ env = NoEnv
  /\ InitHttp
  /\ InitTransport
  /\ cookiesBrowser = ""
  /\ InitArgs

\* ---------------------------------------------- comments out of band
\* A text is the sequence of its UTF-16 code units, a byte string the
\* sequence of its bytes, a base64 string the sequence of the indices of
\* its characters in the base64 alphabet, 64 standing for the padding '='.
Pad == 64

\* Buffer.from(text, 'utf-8'): the UTF-8 bytes of a text of the Basic
\* Multilingual Plane without surrogates.
RECURSIVE Utf8(_)
Utf8(text) ==
  IF Len(text) = 0 THEN <<>>
  ELSE IF Len(text) = 1
    THEN LET c == text[1]
         IN IF c < 128 THEN <<c>>
            ELSE IF c < 2048 THEN <<192 + (c \div 64), 128 + (c % 64)>>
            ELSE <<224 + (c \div 4096), 128 + ((c \div 64) % 64), 128 + (c % 64)>>
    ELSE LET mid == Len(text) \div 2
         IN Utf8(SubSeq(text, 1, mid)) \o Utf8(SubSeq(text, mid + 1, Len(text)))

\* buffer.toString('base64')
Base64(bytes) ==
  LET n == Len(bytes)
      at(i) == IF i <= n THEN bytes[i] ELSE 0
  IN [k \in 1..(4 * ((n + 2) \div 3)) |->
        LET g == 3 * ((k - 1) \div 4)
            j == (k - 1) % 4
        IN CASE j = 0 -> at(g + 1) \div 4
             [] j = 1 -> (at(g + 1) % 4) * 16 + (at(g + 2) \div 16)
             [] j = 2 -> IF g + 2 > n THEN Pad
                         ELSE (at(g + 2) % 16) * 4 + (at(g + 3) \div 64)
             [] j = 3 -> IF g + 3 > n THEN Pad ELSE at(g + 3) % 64]

\* script.js line 140: atob(commentsData), a string with one character per
\* decoded byte.
Atob(data) ==
  LET m == Cardinality({k \in 1..Len(data) : data[k] # Pad})
  IN [i \in 1..((m * 6) \div 8) |->
        LET g == 4 * ((i - 1) \div 3)
            j == (i - 1) % 3
        IN CASE j = 0 -> data[g + 1] * 4 + (data[g + 2] \div 16)
             [] j = 1 -> (data[g + 2] % 16) * 16 + (data[g + 3] \div 4)
             [] j = 2 -> (data[g + 3] % 4) * 64 + data[g + 4]]

\* Controller lines 101-104: the comments text goes into X-Comments-Data.
AttachComments ==
  /\ finalContent # <<>>
  /\ commentsData = <<>>
  /\ commentsData' = Base64(Utf8(finalContent))
  /\ UNCHANGED <<response, commentsText, cookiesBrowser, videoArgs, metaArgs>>
  /\ UNCHANGED <<rvars, xvars, hvars>>

\* script.js lines 129-148: the web UI decodes the header and saves the text.
DownloadComments ==
  /\ commentsData # <<>>
  /\ commentsText = <<>>
  /\ commentsText' = Atob(commentsData)
  /\ UNCHANGED <<response, commentsData, cookiesBrowser, videoArgs, metaArgs>>
  /\ UNCHANGED <<rvars, xvars, hvars>>

NextExtract ==
  \/ ParseComments \/ SortAndSlice \/ FormatComments \/ CapContent
  \/ AttachComments \/ DownloadComments

SpecExtract == InitExtract /\ [][NextExtract]_vars

\* ------------------------------------------------------------- HTTP layer
\* POST /download passes, in this order, the global ThrottlerGuard
\* (app.module.ts 22-27), the controller's ApiKeyGuard, the ValidationPipe
\* on the body and then the handler, which calls downloadVideo.
RouteLimit == 5
RouteTtl == 60000

\* The clock advances by one window at a time.
TimeStep == RouteTtl

\* `process.env.X || d` and parseInt on the values the model uses.
OrDefault(v, d) == IF v = "" THEN d ELSE v
ParseInt(v) ==
  CASE v = "2" -> 2 [] v = "5" -> 5 [] v = "30000" -> 30000 [] v = "60000" -> 60000

\* app.module.ts 14-19: the options ThrottlerModule.forRoot is given.
ModuleThrottle(e) ==
  [ttl |-> ParseInt(OrDefault(e.THROTTLE_TTL, "60000")),
   limit |-> ParseInt(OrDefault(e.THROTTLE_LIMIT, "5"))]

\* @Throttle of the route (controller line 37).
RouteThrottle == [ttl |-> RouteTtl, limit |-> RouteLimit]

\* The options the guard applies to POST /download: those of the route's
\* decorator, which take precedence over the module's.
ThrottleOptions(e) == RouteThrottle

\* The throttler's tracker of a request: the client address.
Tracker(ip, key) == ip

\* The hits of a tracker that have not expired at time t.
LiveHits(hits, t) == SelectSeq(hits, LAMBDA x : x > t)

\* The storage's increment: the new hit lives for ttl.
Increment(hits, t, ttl) == Append(LiveHits(hits, t), t + ttl)

\* ValidKeys without the trim: the entries are taken as split.
ValidKeys_NoTrim(config) ==
  LET cuts == {0, Len(config) + 1} \cup {i \in 1..Len(config) : config[i] = ","}
      entries == {SubSeq(config, a + 1, b - 1) :
                    <<a, b>> \in {c \in cuts \X cuts :
                       c[1] < c[2] /\ \A d \in cuts : ~(c[1] < d /\ d < c[2])}}
  IN {e \in entries : Len(e) > 0}

\* Guard, lines 62-66: `validKeys`, the entries of API_KEYS split at the
\* commas, trimmed, the empty ones dropped.
ValidKeys(config) ==
  LET cuts == {0, Len(config) + 1} \cup {i \in 1..Len(config) : config[i] = ","}
      entries == {SubSeq(config, a + 1, b - 1) :
                    <<a, b>> \in {c \in cuts \X cuts :
                       c[1] < c[2] /\ \A d \in cuts : ~(c[1] < d /\ d < c[2])}}
      Trim(e) == LET text == {i \in 1..Len(e) : e[i] # " "}
                 IN IF text = {} THEN <<>>
                    ELSE SubSeq(e, CHOOSE i \in text : \A j \in text : i <= j,
                                   CHOOSE i \in text : \A j \in text : i >= j)
  IN {Trim(e) : e \in entries} \ {<<>>}

\* ApiKeyGuard accepting every key that is present.
ApiKeyGuard_PresenceOnly(key) ==
  IF key = NoKey THEN [ok |-> FALSE, message |-> {"API key is missing"}]
  ELSE [ok |-> TRUE, message |-> {}]

\* Guard, lines 53-72: canActivate.
ApiKeyGuard(key) ==
  IF key = NoKey THEN [ok |-> FALSE, message |-> {"API key is missing"}]
  ELSE IF <<key>> \notin ValidKeys(env.API_KEYS)
    THEN [ok |-> FALSE, message |-> {"Invalid API key"}]
  ELSE [ok |-> TRUE, message |-> {}]

\* DTO, lines 9-13: the three decorators of `url`.  isURL asks for a host
\* with a top-level domain and does not ask for a scheme; the pattern
\* /tiktok\.com/ is searched anywhere in the string.
Pieces(u) == <<u.scheme>> \o u.host \o u.path
IsString(u) == u.present
IsUrl(u) ==
  /\ u.present /\ u.host # <<>>
  /\ u.host[Len(u.host)] \in {"youtube.com", "tiktok.com", "example.com"}
Matches(u) == u.present /\ \E i \in 1..Len(Pieces(u)) : Pieces(u)[i] = "tiktok.com"

\* The messages of the constraints of DownloadRequestDto that `u` violates.
ValidationErrors(u) ==
  (IF IsString(u) THEN {} ELSE {"url must be a string"})
    \cup (IF IsUrl(u) THEN {} ELSE {"Invalid URL format"})
    \cup (IF Matches(u) THEN {} ELSE {"URL must be from tiktok.com domain"})

\* The response to a request that is the totalHits-th live hit of its
\* tracker: 429 from the ThrottlerGuard, 401 from the ApiKeyGuard, 400 from
\* the ValidationPipe; otherwise the handler runs and calls downloadVideo
\* (controller line 89), whose outcome decides the status (left at 0).
Respond(totalHits, limit, key, url) ==
  IF totalHits > limit
    THEN [status |-> 429, message |-> {"ThrottlerException: Too Many Requests"},
          called |-> FALSE]
  ELSE IF ~ApiKeyGuard(key).ok
    THEN [status |-> 401, message |-> ApiKeyGuard(key).message, called |-> FALSE]
  ELSE IF ValidationErrors(url) # {}
    THEN [status |-> 400, message |-> ValidationErrors(url), called |-> FALSE]
  ELSE [status |-> 0, message |-> {}, called |-> TRUE]

\* One POST /download from address ip with header value key and body url.
PostDownload(ip, key, url) ==
  /\ served < MaxRequests
  /\ LET opts == ThrottleOptions(env)
         hits == Increment(storage[Tracker(ip, key)], now, opts.ttl)
         r == Respond(Len(hits), opts.limit, key, url)
     IN /\ storage' = [storage EXCEPT ![Tracker(ip, key)] = hits]
        /\ last' = [ip |-> ip, key |-> key, url |-> url, status |-> r.status,
                    message |-> r.message, called |-> r.called,
                    totalHits |-> Len(hits)]
        /\ keyHits' = [keyHits EXCEPT ![key] = Increment(@, now, opts.ttl)]
  /\ served' = served + 1
  /\ UNCHANGED <<env, now>>
  /\ UNCHANGED <<rvars, xvars, cvars>>

\* Time passes; the hits whose time to live ran out leave the storage.
Tick ==
  /\ now < MaxTicks * TimeStep
  /\ now' = now + TimeStep
  /\ storage' = [ip \in Ips |-> LiveHits(storage[ip], now + TimeStep)]
  /\ keyHits' = [k \in Keys |-> LiveHits(keyHits[k], now + TimeStep)]
  /\ UNCHANGED <<env, served, last>>
  /\ UNCHANGED <<rvars, xvars, cvars>>

InitGate ==
  /\ InitRequests
  /\ InitSelection
  /\ env \in Envs
  /\ InitHttp
  /\ InitTransport
  /\ cookiesBrowser = ""
  /\ InitArgs

\* SpecKeys: the requests of SpecHttp under every value of API_KEYS.
InitKeys ==
  /\ InitRequests
  /\ InitSelection
  /\ env \in {[NoEnv EXCEPT !.API_KEYS = config] : config \in ApiKeysConfigs}
  /\ InitHttp
  /\ InitTransport
  /\ cookiesBrowser = ""
  /\ InitArgs

NextHttp ==
  \/ \E ip \in Ips, key \in Keys, url \in Urls : PostDownload(ip, key, url)
  \/ Tick

SpecHttp == InitGate /\ [][NextHttp]_vars

SpecKeys == InitKeys /\ [][NextHttp]_vars

\* ------------------------------------------------------- argument lists
\* SpecArgs: the argument lists the two runners hand to spawn, for every
\* value of YTDLP_COOKIES_BROWSER.  An argument is the sequence of the
\* pieces of its text.
UserAgent ==
  "Mozilla/5.0 (Windows NT 10.0; Win64; x64) AppleWebKit/537.36 (KHTML, like Gecko) Chrome/120.0.0.0 Safari/537.36"

\* configService.get('YTDLP_COOKIES_BROWSER'): undefined when unset.
Browsers ==
  {"undefined", "", "chrome", "chromium", "firefox", "edge", "safari", "brave", "opera", "vivaldi"}

\* Lines 138-161: `args` of executeYtDlp.
VideoArgs(url, outputPath, browser) ==
  <<Pieces(url), <<"-o">>, outputPath, <<"--no-playlist">>, <<"--no-warnings">>,
    <<"-f">>, <<"best[ext=mp4]/best">>, <<"--merge-output-format">>, <<"mp4">>>>
    \o (IF Truthy(browser) THEN <<<<"--cookies-from-browser">>, <<browser>>>> ELSE <<>>)
    \o <<<<"--user-agent">>, <<UserAgent>>>>

\* MetaArgs of a metadata runner that does not read the browser name.
MetaArgs_NoCookies(url, outputTemplate, browser) ==
  <<Pieces(url), <<"-o">>, outputTemplate, <<"--write-info-json">>,
    <<"--skip-download">>, <<"--no-warnings">>>>
    \o <<<<"--user-agent">>, <<UserAgent>>>>

\* Lines 298-318: `args` of executeYtDlpComments.
MetaArgs(url, outputTemplate, browser) ==
  <<Pieces(url), <<"-o">>, outputTemplate, <<"--write-info-json">>,
    <<"--skip-download">>, <<"--no-warnings">>>>
    \o (IF Truthy(browser) THEN <<<<"--cookies-from-browser">>, <<browser>>>> ELSE <<>>)
    \o <<<<"--user-agent">>, <<UserAgent>>>>

\* Line 60 and lines 138-165: executeYtDlp(url, outputPath) spawns yt-dlp.
SpawnVideo(r, url) ==
  /\ videoArgs = <<>>
  /\ videoArgs' = VideoArgs(url, OutputPath(r), cookiesBrowser)
  /\ UNCHANGED <<response, commentsData, commentsText, cookiesBrowser, metaArgs>>
  /\ UNCHANGED <<rvars, xvars, hvars>>

\* Line 228 and lines 296-325: executeYtDlpComments(url, videoId) spawns
\* yt-dlp, for the url and the id of the video invocation.
SpawnMeta(r, url) ==
  /\ videoArgs = VideoArgs(url, OutputPath(r), cookiesBrowser)
  /\ metaArgs = <<>>
  /\ metaArgs' = MetaArgs(url, <<r>>, cookiesBrowser)
  /\ UNCHANGED <<response, commentsData, commentsText, cookiesBrowser, videoArgs>>
  /\ UNCHANGED <<rvars, xvars, hvars>>

InitSpawn ==
  /\ InitRequests
  /\ InitSelection
  /\ env = NoEnv
  /\ InitHttp
  /\ InitTransport
  /\ cookiesBrowser \in Browsers
  /\ InitArgs

\* The urls the validation lets through.
NextSpawn ==
  \E r \in Req, url \in {u \in Urls : ValidationErrors(u) = {}} :
    SpawnVideo(r, url) \/ SpawnMeta(r, url)

SpecArgs == InitSpawn /\ [][NextSpawn]_vars

\* ================================================================ claims
\* Vocabulary of the claims.
VideoRan(r) == vproc[r].st = "closed"
VideoExit0(r) == VideoRan(r) /\ vproc[r].code = "0"
VideoExitNonzero(r) == VideoRan(r) /\ vproc[r].code # "0"
VideoSpawnFailed(r) == vproc[r].st \in {"errored", "failed"}
MetaSpawnFailed(r) == mproc[r].st \in {"errored", "failed"}
Returned(r) == result[r].outcome = "returned"
Thrown(r, status, msg) ==
  result[r] = [NoResult EXCEPT !.outcome = "thrown", !.status = status, !.msg = msg]
HandlersFinished(r) ==
  hClose[r] \in {"idle", "done"} /\ hError[r] \in {"idle", "done"}
\* The request has fully completed: it failed before a stream was produced,
\* or its stream emitted close/error and the handlers started have finished.
FullyCompleted(r) ==
  \/ pc[r] = "Failed"
  \/ stream[r] \in {"errored", "closed"} /\ HandlersFinished(r)
FilesOf(r) == {p \in Paths : p[1] = r /\ Exists(fs, p)}

C2_ExtractionNeverFatal ==
  \A r \in Req :
    (VideoExit0(r) /\ vproc[r].wrote > 0) =>
      \/ pc[r] \in {"Downloading", "Locating", "ExtractingComments", "ReadBack"}
      \/ pc[r] = "Streaming" /\ Returned(r)

\* C2 witness: a result was returned although the metadata invocation
\* could not be started.
C2_Witness ==
  \E r \in Req : Returned(r) /\ mpromise[r].st = "rejected"

\* C3: while the returned stream has emitted neither close nor error, the
\* video file it reads exists.
C3_FileOutlivesOpenStream ==
  \A r \in Req : (Returned(r) /\ stream[r] = "open") => Exists(fs, OutputPath(r))

\* C3 witness: a stream is open after a comment extraction that went
\* through its catch block (the metadata file was malformed or unreadable).
C3_Witness ==
  \E r \in Req : /\ Returned(r) /\ stream[r] = "open"
                 /\ mproc[r].wrote > 0 /\ ~commentsFilePath[r]

\* C4: a nonzero exit whose stderr contains 'Video unavailable' makes
\* downloadVideo fail with BadRequest 'Video is unavailable or private'.
C4_UnavailableIsValidation ==
  \A r \in Req :
    (VideoExitNonzero(r) /\ Includes(stderr[r], MarkerUnavailable)) =>
      /\ pc[r] \in {"Downloading", "Catch", "Failed"}
      /\ pc[r] = "Failed" => Thrown(r, 400, <<MsgUnavailable>>)

\* C4 witness: such a request has failed, with a login marker in stderr too.
C4_Witness ==
  \E r \in Req : /\ pc[r] = "Failed" /\ VideoExitNonzero(r)
                 /\ Includes(stderr[r], MarkerUnavailable)
                 /\ Includes(stderr[r], MarkerCookies)

HasLoginMarker(s) == Includes(s, MarkerLogin) \/ Includes(s, MarkerCookies)
HasHigherMarker(s) ==
  Includes(s, MarkerUnavailable) \/ Includes(s, MarkerUnsupported) \/ Includes(s, Marker404)

\* C5 as stated: every nonzero exit whose stderr contains a login/cookie
\* marker fails with the authentication message and its remediation hint.
C5_Original ==
  \A r \in Req :
    (VideoExitNonzero(r) /\ HasLoginMarker(stderr[r]) /\ pc[r] = "Failed") =>
      Thrown(r, 400, <<MsgAuth>>)

\* C5 amended: a nonzero exit whose stderr contains a login/cookie marker
\* and none of the markers tested before it ('Video unavailable',
\* 'Unsupported URL', 'HTTP Error 404') fails with the authentication
\* message, which names YTDLP_COOKIES_BROWSER.
C5_AuthWhenNoHigherMarker ==
  \A r \in Req :
    (VideoExitNonzero(r) /\ HasLoginMarker(stderr[r]) /\ ~HasHigherMarker(stderr[r])) =>
      /\ pc[r] \in {"Downloading", "Catch", "Failed"}
      /\ pc[r] = "Failed" => Thrown(r, 400, <<MsgAuth>>)

\* C5 witness: a request failed on 'Use --cookies' alone.
C5_Witness ==
  \E r \in Req : /\ pc[r] = "Failed" /\ VideoExitNonzero(r)
                 /\ Includes(stderr[r], MarkerCookies)
                 /\ ~Includes(stderr[r], MarkerLogin)
                 /\ ~HasHigherMarker(stderr[r])

\* The kind of a failed request, from its cause: the binary did not start;
\* it exited nonzero (classified by stderr); it exited 0 leaving an empty
\* file (validation) or no file (a filesystem error, unclassified).
FailKind(r) ==
  IF VideoSpawnFailed(r) THEN "spawn"
  ELSE IF vproc[r].code # "0"
    THEN IF HasHigherMarker(stderr[r]) THEN "validation"
         ELSE IF HasLoginMarker(stderr[r]) THEN "auth"
         ELSE "internal"
  ELSE IF vproc[r].wrote = 0 THEN "validation" ELSE "internal"

\* C6 as stated: two failures of distinct kinds never carry the same status.
C6_Original ==
  \A r1, r2 \in Req :
    (pc[r1] = "Failed" /\ pc[r2] = "Failed" /\ FailKind(r1) # FailKind(r2)) =>
      result[r1].status # result[r2].status

\* C6 amended: failures of distinct kinds carry distinct messages; the
\* status is 400 for validation and authentication-required failures and
\* 500 for spawn failures and unclassified internal failures.
C6_KindsByMessage ==
  /\ \A r \in Req :
       pc[r] = "Failed" =>
         result[r].status = IF FailKind(r) \in {"validation", "auth"} THEN 400 ELSE 500
  /\ \A r1, r2 \in Req :
       (pc[r1] = "Failed" /\ pc[r2] = "Failed" /\ FailKind(r1) # FailKind(r2)) =>
         result[r1].msg # result[r2].msg

\* C6 witness: an authentication-required and a validation failure, both 400.
C6_Witness ==
  \E r1, r2 \in Req :
    /\ pc[r1] = "Failed" /\ pc[r2] = "Failed"
    /\ FailKind(r1) = "auth" /\ FailKind(r2) = "validation"
    /\ result[r1].status = result[r2].status

\* C7: a nonzero exit whose stderr matches no marker fails with
\* InternalServerError carrying the raw stderr, 'Unknown error' when empty.
C7_UnmatchedIsInternal ==
  \A r \in Req :
    (VideoExitNonzero(r) /\ ~HasHigherMarker(stderr[r]) /\ ~HasLoginMarker(stderr[r])) =>
      /\ pc[r] \in {"Downloading", "Catch", "Failed"}
      /\ pc[r] = "Failed" =>
           Thrown(r, 500, <<MsgWrap, MsgDownloadFailed>>
                            \o (IF stderr[r] = <<>> THEN <<MsgUnknown>> ELSE stderr[r]))

\* C7 witness: a request failed on a nonzero exit with empty stderr.
C7_Witness ==
  \E r \in Req : pc[r] = "Failed" /\ VideoExitNonzero(r) /\ stderr[r] = <<>>

\* C8 as stated: a failure to start the binary is fatal to the operation
\* that issued the invocation: downloadVideo does not return a result after
\* a failed video spawn, and extractComments does not return (an empty
\* result) after a failed metadata spawn.
C8_Original ==
  \A r \in Req :
    /\ VideoSpawnFailed(r) => pc[r] \in {"Downloading", "Catch", "Failed"}
    /\ MetaSpawnFailed(r) => pc[r] = "ExtractingComments"

\* C8 amended: in both invocations a failure to start the binary rejects
\* the runner's promise with the spawn error, unlike a nonzero exit; for the
\* video invocation it is fatal to downloadVideo (InternalServerError
\* 'Failed to execute yt-dlp'); for the metadata invocation extractComments
\* absorbs it and returns no comments, and downloadVideo still succeeds.
C8_SpawnFailureDistinguished ==
  \A r \in Req :
    /\ VideoSpawnFailed(r) =>
         /\ vpromise[r] = Rejected(Err("InternalServerError", <<MsgSpawn, MsgSpawnErrno>>))
         /\ pc[r] \in {"Downloading", "Catch", "Failed"}
         /\ pc[r] = "Failed" => Thrown(r, 500, <<MsgWrap, MsgSpawn, MsgSpawnErrno>>)
    /\ MetaSpawnFailed(r) =>
         /\ mpromise[r] = Rejected(Err("Error", <<MsgSpawnErrno>>))
         /\ pc[r] \in {"ExtractingComments", "ReadBack", "Streaming"}
         /\ pc[r] # "ExtractingComments" => ~commentsFilePath[r]
         /\ pc[r] = "Streaming" =>
              Returned(r) /\ ~result[r].commentsFile
                          /\ result[r].commentsContent = "undefined"
    /\ mproc[r].st = "closed" => mpromise[r] = Resolved

\* C8 witness: the metadata binary failed to start (error, then the close
\* event carrying the errno) and downloadVideo has returned its result.
C8_Witness ==
  \E r \in Req : Returned(r) /\ mproc[r].st = "failed"

\* C9 as stated: exit 0 with the output missing or empty fails with
\* BadRequest 'Downloaded file is invalid or empty'.
C9_Original ==
  \A r \in Req :
    (VideoExit0(r) /\ vproc[r].wrote <= 0 /\ pc[r] = "Failed") =>
      Thrown(r, 400, <<MsgInvalidFile>>)

\* C10: a returned result has a size above zero, the size of the file the
\* video invocation left, which is the size of the file the stream reads.
C10_SizeOfResult ==
  \A r \in Req :
    Returned(r) =>
      /\ result[r].size > 0
      /\ result[r].size = vproc[r].wrote
      /\ stream[r] = "open" => result[r].size = fs[OutputPath(r)].size

\* C10 witness: a result of the largest size has been returned.
C10_Witness ==
  \E r \in Req : Returned(r) /\ result[r].size = MaxSize

C12_CleanupKeepsError ==
  \A r \in Req :
    pc[r] = "Failed" =>
      /\ ~Exists(fs, OutputPath(r))
      /\ VideoSpawnFailed(r) => err[r] = Err("InternalServerError", <<MsgSpawn, MsgSpawnErrno>>)
      /\ VideoExitNonzero(r) => err[r] = ClassifyStderr(stderr[r])
      /\ VideoExit0(r) => err[r] \in {BadRequestException(MsgInvalidFile),
                                      Err("Error", <<MsgStatEnoent>>)}
      /\ IF err[r].type = "BadRequest"
           THEN Thrown(r, 400, err[r].msg)
           ELSE Thrown(r, 500, <<MsgWrap>> \o err[r].msg)

\* C12 witness: a nonzero exit that left no file, so that the deletion
\* failed, ended in the validation error of its stderr.
C12_Witness ==
  \E r \in Req : /\ pc[r] = "Failed" /\ VideoExitNonzero(r) /\ vproc[r].wrote = -1
                 /\ result[r].status = 400

\* C13: no cleanup handler ends in an unhandled rejection, and once the
\* handlers started by a stream error, or by an error followed by close
\* (two deletions of the same files), have finished, the files left are
\* those a single cleanup leaves: none.
C13_HandlersSwallow ==
  \A r \in Req :
    /\ hClose[r] \in {"idle", "unlinkVideo", "unlinkComments", "done"}
    /\ hError[r] \in {"idle", "unlinkVideo", "unlinkComments", "done"}
    /\ (hClose[r] = "done" /\ hError[r] = "idle") => FilesOf(r) = {}
    /\ (hError[r] = "done" /\ hClose[r] \in {"idle", "done"}) => FilesOf(r) = {}

\* C13 witness: the stream errored and closed and both handlers have
\* finished, one of the two deletions of the video having failed.
C13_Witness ==
  \E r \in Req : /\ stream[r] = "closed" /\ hClose[r] = "done" /\ hError[r] = "done"
                 /\ ~commentsFilePath[r] /\ mproc[r].wrote = -1

\* C14: the steps of a request are sequential: the artifact is checked only
\* after the video invocation has exited; the metadata invocation is started
\* only after the artifact was checked (and the video invocation is over);
\* the stream is opened only after extractComments has returned, the
\* metadata invocation being over; the two invocations never run at once.
C14_Sequential ==
  \A r \in Req :
    /\ pc[r] \in {"Locating", "ExtractingComments", "ReadBack", "Streaming"} =>
         vproc[r].st = "closed"
    /\ mproc[r].st # "none" => stats[r] > 0 /\ vproc[r].st = "closed"
    /\ stream[r] # "none" =>
         /\ pc[r] = "Streaming"
         /\ mpromise[r].st # "pending" /\ mproc[r].st \in {"errored", "failed", "closed"}
    /\ ~(vproc[r].st = "spawned" /\ mproc[r].st = "spawned")

\* C14 witness: a stream is open; both invocations ran and have exited.
C14_Witness ==
  \E r \in Req : /\ stream[r] = "open" /\ vproc[r].st = "closed"
                 /\ mproc[r].st = "closed" /\ mproc[r].code = "0"

\* The lifecycle state of a request.  Located is passed through within the
\* step that stats the artifact and enters extractComments; a request whose
\* error is caught is Failed.
Phase(r) ==
  IF pc[r] = "Started" THEN "Started"
  ELSE IF pc[r] \in {"Downloading", "Locating"} THEN "Downloading"
  ELSE IF pc[r] \in {"Catch", "Failed"} THEN "Failed"
  ELSE IF pc[r] \in {"ExtractingComments", "ReadBack"} THEN "ExtractingComments"
  ELSE IF stream[r] = "closed" THEN "Closed"
  ELSE "Streaming"

PhaseEdges ==
  {<<"Started", "Downloading">>, <<"Downloading", "ExtractingComments">>,
   <<"Downloading", "Failed">>, <<"ExtractingComments", "Streaming">>,
   <<"Streaming", "Closed">>}

\* C15: a request moves only along Started -> Downloading ->
\* (ExtractingComments -> Streaming -> Closed) | Failed, so that Failed and
\* Closed are never left; the video binary is spawned when the request
\* leaves Started and at no other step; the metadata binary is spawned at
\* most once, in the step that found a nonzero artifact after exit 0, and
\* has been spawned exactly in the requests that got past Downloading
\* without failing.
C15_Lifecycle ==
  /\ [](\A r \in Req :
          /\ Phase(r) = "Started" <=> vproc[r].st = "none"
          /\ Phase(r) \in {"ExtractingComments", "Streaming", "Closed"}
               <=> mproc[r].st # "none")
  /\ [][\A r \in Req :
          /\ Phase(r)' # Phase(r) => <<Phase(r), Phase(r)'>> \in PhaseEdges
          /\ (vproc[r].st # "spawned" /\ vproc'[r].st = "spawned") =>
               vproc[r].st = "none" /\ Phase(r) = "Started"
          /\ (mproc[r].st # "spawned" /\ mproc'[r].st = "spawned") =>
               /\ mproc[r].st = "none" /\ pc[r] = "Locating"
               /\ VideoExit0(r)
               /\ Exists(fs, OutputPath(r)) /\ fs[OutputPath(r)].size > 0]_vars

\* C15 witness: a request went through the whole lifecycle to Closed,
\* having spawned both binaries.
C15_Witness ==
  \E r \in Req : /\ Phase(r) = "Closed" /\ hClose[r] = "done"
                 /\ vproc[r].st = "closed" /\ mproc[r].st = "closed"

\* What a request holds besides the files of the directory.
Local(r) ==
  <<pc[r], vproc[r], vpromise[r], stderr[r], mproc[r], mpromise[r], err[r],
    stats[r], commentsFilePath[r], commentsContent[r], result[r], stream[r],
    hClose[r], hError[r]>>

\* C16: with two requests interleaved in every way, a step changes (writes
\* or deletes) only files named after the one request that takes it, and no
\* file a request is about to read is taken from under it: the comments
\* file it wrote is there when it reads it back, the video is there while
\* its stream is open.
C16_NoContention ==
  /\ [](\A r \in Req :
          /\ (pc[r] = "ReadBack" /\ commentsFilePath[r]) => Exists(fs, CommentsTxtPath(r))
          /\ stream[r] = "open" => Exists(fs, OutputPath(r)))
  /\ [][\A p \in Paths :
          fs'[p] # fs[p] =>
            /\ Local(p[1])' # Local(p[1])
            /\ \A q \in Req \ {p[1]} : Local(q)' = Local(q)]_vars

\* C16 witness: two requests stream at once, each with its own video and
\* comments file in the directory.
C16_Witness ==
  \E r1, r2 \in Req :
    /\ r1 # r2 /\ stream[r1] = "open" /\ stream[r2] = "open"
    /\ Exists(fs, CommentsTxtPath(r1)) /\ Exists(fs, CommentsTxtPath(r2))
    /\ Exists(fs, OutputPath(r1)) /\ Exists(fs, OutputPath(r2))

MetaExitNonzero(r) == mproc[r].st = "closed" /\ mproc[r].code # "0"

\* C17 as stated: after a nonzero exit of the metadata invocation comment
\* extraction yields no comments (no comments file, no comments text in the
\* result) and the request does not fail.
C17_Original ==
  \A r \in Req :
    MetaExitNonzero(r) =>
      /\ pc[r] \in {"ExtractingComments", "ReadBack", "Streaming"}
      /\ pc[r] # "ExtractingComments" => ~commentsFilePath[r]
      /\ Returned(r) => result[r].commentsContent = "undefined"

\* C17 amended: a nonzero exit of the metadata invocation is not propagated:
\* the runner's promise resolves as for exit 0 and the request does not
\* fail; extraction then yields no comments when the invocation left no
\* metadata file, and goes by the content of the file when it left one.
C17_NonzeroExitNotPropagated ==
  \A r \in Req :
    MetaExitNonzero(r) =>
      /\ mpromise[r] = Resolved
      /\ pc[r] \in {"ExtractingComments", "ReadBack", "Streaming"}
      /\ (pc[r] # "ExtractingComments" /\ mproc[r].wrote = -1) =>
           /\ ~commentsFilePath[r]
           /\ Returned(r) => result[r].commentsContent = "undefined"

\* C17 witness: a result carrying comments text was returned after the
\* metadata invocation was killed by a signal (exit code null).
C17_Witness ==
  \E r \in Req : /\ Returned(r) /\ MetaExitNonzero(r) /\ mproc[r].code = "null"
                 /\ result[r].commentsContent = "comments"

\* C18: a returned result carries comments text only when extractComments
\* returned a comments file, which it does only when the metadata
\* invocation's promise resolved and the metadata file existed, parsed and
\* held at least one comment; when the metadata file is absent, or holds no
\* comment collection or an empty one, extractComments returns no file, and
\* downloadVideo goes on to return a result without comments text.
C18_CommentsOnlyFromMetadata ==
  /\ [](\A r \in Req :
          (Returned(r) /\ result[r].commentsContent # "undefined") =>
            commentsFilePath[r] /\ result[r].commentsFile)
  /\ [][\A r \in Req :
          /\ (pc[r] = "ExtractingComments" /\ pc'[r] # pc[r]) =>
               /\ pc'[r] = "ReadBack"
               /\ commentsFilePath'[r] =>
                    /\ mpromise[r].st = "resolved"
                    /\ Exists(fs, CommentsJsonPath(r))
                    /\ fs[CommentsJsonPath(r)].data = "comments"
               /\ (~Exists(fs, CommentsJsonPath(r))
                     \/ fs[CommentsJsonPath(r)].data = "nocomments") =>
                    ~commentsFilePath'[r]
          /\ (pc[r] = "ReadBack" /\ pc'[r] # pc[r]) =>
               /\ Returned(r)'
               /\ ~commentsFilePath[r] => result'[r].commentsContent = "undefined"]_vars

\* C18 witness: a result without comments text was returned after a
\* metadata invocation that exited 0 leaving a metadata file (with no or an
\* unusable comment collection).
C18_Witness ==
  \E r \in Req : /\ Returned(r) /\ result[r].commentsContent = "undefined"
                 /\ ~result[r].commentsFile
                 /\ mproc[r].st = "closed" /\ mproc[r].code = "0" /\ mproc[r].wrote > 0

Rank(c) == IF c.like_count = Undefined THEN 0 ELSE c.like_count
Entries(s) == {s[i] : i \in 1..Len(s)}
\* The position a comment had in the metadata file (see AuthorOf).
Position(c) == c.author[1] - 64

\* C20: of a collection of N comments the selection keeps min(N, 15), each
\* one an entry of the collection, in non-increasing order of like count (a
\* missing like count ranking as 0), entries of equal like count in the
\* order they had in the collection; no entry left out ranks above a kept
\* one.
C20_TopFifteen ==
  topComments # <<>> =>
    /\ Len(topComments) = IF Len(jsonContent) < 15 THEN Len(jsonContent) ELSE 15
    /\ Entries(topComments) \subseteq Entries(jsonContent)
    /\ \A i, j \in 1..Len(topComments) :
         i < j => /\ Rank(topComments[i]) >= Rank(topComments[j])
                  /\ Rank(topComments[i]) = Rank(topComments[j]) =>
                       Position(topComments[i]) < Position(topComments[j])
    /\ \A c \in Entries(jsonContent) \ Entries(topComments) :
         \A i \in 1..Len(topComments) : Rank(topComments[i]) >= Rank(c)

\* C20 witness: 15 comments were kept out of more than 15, among them two
\* of equal like count and one without a like count.
C20_Witness ==
  /\ Len(jsonContent) > 15 /\ Len(topComments) = 15
  /\ \E i, j \in 1..Len(topComments) :
       i < j /\ Rank(topComments[i]) = Rank(topComments[j])
  /\ \E i \in 1..Len(topComments) : topComments[i].like_count = Undefined

\* C21: the text emitted for a kept comment whose text is longer than 200
\* code units is its first 200 code units followed by '...' (203 in all);
\* a text of 200 or fewer is emitted as it is.
C21_TextTruncation ==
  commentText # <<>> =>
    /\ Len(commentText) = Len(topComments)
    /\ \A k \in 1..Len(commentText) :
         LET text == topComments[k].text
             emitted == commentText[k]
         IN IF Len(text) > 200
              THEN /\ Len(emitted) = 203
                   /\ \A i \in 1..200 : emitted[i] = text[i]
                   /\ \A i \in 201..203 : emitted[i] = 46
              ELSE emitted = text

\* C21 witness: of two kept comments one had a text of exactly 200 code
\* units, emitted whole, the other a text of 201, emitted cut.
C21_Witness ==
  /\ Len(commentText) = 2
  /\ \E k \in 1..2 : Len(topComments[k].text) = 200 /\ Len(commentText[k]) = 200
  /\ \E k \in 1..2 : Len(topComments[k].text) = 201 /\ Len(commentText[k]) = 203

\* C22: a joined block of more than 5000 code units is emitted as its
\* first 5000 followed by the truncation note; a block of 5000 or fewer is
\* emitted as it is; the emitted text is never longer than 5000 plus the
\* length of the note.
C22_BlockCap ==
  finalContent # <<>> =>
    /\ Len(finalContent) <= 5000 + Len(TruncationNote)
    /\ IF Len(textContent) > 5000
         THEN /\ Len(finalContent) = 5000 + Len(TruncationNote)
              /\ \A i \in 1..5000 : finalContent[i] = textContent[i]
              /\ \A i \in 1..Len(TruncationNote) :
                   finalContent[5000 + i] = TruncationNote[i]
         ELSE finalContent = textContent

\* C22 witness: a block of 5001 code units was cut.
C22_Witness ==
  Len(textContent) = 5001 /\ Len(finalContent) = 5000 + Len(TruncationNote)

\* The entry the k-th kept comment is expected to have in the block, and the
\* offset at which it is expected to start.
ExpectedNumber(k) ==
  IF k < 10 THEN <<48 + k>> ELSE <<48 + (k \div 10), 48 + (k % 10)>>
ExpectedEntry(k) ==
  ExpectedNumber(k) \o <<46, 32>> \o topComments[k].author \o <<58, 32>> \o commentText[k]
RECURSIVE ExpectedOffset(_)
ExpectedOffset(k) ==
  IF k = 1 THEN 0 ELSE ExpectedOffset(k - 1) + Len(ExpectedEntry(k - 1)) + 2

\* C23: the block holds one entry per kept comment, at most 15, in the
\* order of topComments (the rank order), the k-th being
\* '<k>. <author>: <text>' with k counted from 1 and <text> the text
\* emitted for the comment, entries two line feeds apart, and nothing else.
C23_NumberedEntries ==
  textContent # <<>> =>
    LET n == Len(topComments) IN
    /\ n <= 15 /\ Len(commentText) = n
    /\ \A k \in 1..n :
         /\ SubSeq(textContent, ExpectedOffset(k) + 1,
                   ExpectedOffset(k) + Len(ExpectedEntry(k))) = ExpectedEntry(k)
         /\ k < n =>
              SubSeq(textContent, ExpectedOffset(k) + Len(ExpectedEntry(k)) + 1,
                     ExpectedOffset(k) + Len(ExpectedEntry(k)) + 2) = <<10, 10>>
    /\ Len(textContent) = ExpectedOffset(n) + Len(ExpectedEntry(n))
    /\ \A i, j \in 1..n : i < j => Rank(topComments[i]) >= Rank(topComments[j])

\* C23 witness: 20 comments gave a block of 15 entries that begins '1. '.
C23_Witness ==
  /\ Len(jsonContent) = 20 /\ Len(topComments) = 15
  /\ Len(textContent) > 3 /\ SubSeq(textContent, 1, 3) = <<49, 46, 32>>

\* ---------------------------------------------------------------- C24
\* A request has been answered.
Answered == served > 0
KeyRejected == Answered /\ last.key \notin ConfiguredKeys
KeyMessage(key) == IF key = NoKey THEN {"API key is missing"} ELSE {"Invalid API key"}

\* C24 as stated: every request whose X-API-Key header is absent or not a
\* configured key is answered 401 with the message of its case, and
\* downloadVideo is not invoked.
C24_Original ==
  KeyRejected =>
    /\ last.status = 401
    /\ last.message = KeyMessage(last.key)
    /\ ~last.called

\* C24: a request whose X-API-Key header is absent or not a configured key
\* never reaches downloadVideo; it is answered 401 with 'API key is missing'
\* or 'Invalid API key', unless the throttler, which runs first, has already
\* answered 429 because the request exceeds the limit of the window.
C24_KeyRequired ==
  KeyRejected =>
    /\ ~last.called
    /\ IF last.totalHits > RouteLimit
         THEN last.status = 429
         ELSE last.status = 401 /\ last.message = KeyMessage(last.key)

C24_Witness ==
  /\ Answered /\ last.key = "invalid-key" /\ last.status = 401
  /\ last.url = Url("https://", <<"www.", "tiktok.com">>, <<"/@user/video/123">>)

\* ---------------------------------------------------------------- C25
\* The url's host is tiktok.com or one of its subdomains.
FromTiktokDomain(u) ==
  /\ u.present /\ u.host # <<>>
  /\ u.host[Len(u.host)] = "tiktok.com"
  /\ Len(u.host) > 1 => u.host[Len(u.host) - 1] \in {"www.", "vm.", "m."}

\* C25 as stated: with a valid key, downloadVideo is invoked only with a url
\* from the tiktok.com domain; a url that is missing, not well-formed or
\* from another domain is turned away before downloadVideo.
C25_Original ==
  (Answered /\ last.key \in ConfiguredKeys /\ last.called) =>
    FromTiktokDomain(last.url)

\* ---------------------------------------------------------------- C26
\* The requests made with the key of the last request whose window has not
\* expired, the last request included.
HitsOfKey == Len(keyHits[last.key])

\* C26 as stated: the limit is counted per API key: a request is answered
\* 429 exactly when it is at least the sixth made with its key in the
\* current window, whatever was requested with other keys.
C26_Original ==
  (Answered /\ last.key \in ConfiguredKeys) =>
    (last.status = 429 <=> HitsOfKey > RouteLimit)

\* ---------------------------------------------------------------- C27
\* C27 as stated: the limit applied to POST /download is the configured
\* one: with THROTTLE_LIMIT = L (5 when unset), a request is answered 429
\* exactly when more than L requests were counted in its window.
C27_Original ==
  Answered => (last.status = 429 <=> last.totalHits > ModuleThrottle(env).limit)

\* ---------------------------------------------------------------- C28
\* The request is over: it failed and the catch block has run, or its
\* stream was closed and the handlers it started have finished.
Terminated(r) ==
  \/ pc[r] = "Failed"
  \/ Phase(r) = "Closed" /\ HandlersFinished(r)

Ended(p) == p.st \in {"closed", "errored", "failed"}

\* C29: there is no timeout and no kill.  While the video binary runs the
\* request is in Downloading with its promise pending, and while the
\* metadata binary runs it is in the comment extraction with that promise
\* pending, so a request whose binary never exits never reaches Failed or
\* Closed; a request leaves either state only after the close or error
\* event of the subprocess, and a running subprocess changes state only
\* by emitting one of the two.
C29_NoTimeout ==
  /\ [](\A r \in Req :
          /\ vproc[r].st = "spawned" =>
               pc[r] = "Downloading" /\ vpromise[r] = Pending /\ ~Terminated(r)
          /\ mproc[r].st = "spawned" =>
               pc[r] = "ExtractingComments" /\ mpromise[r] = Pending /\ ~Terminated(r))
  /\ [][\A r \in Req :
          /\ (pc[r] = "Downloading" /\ pc'[r] # "Downloading") => Ended(vproc[r])
          /\ (pc[r] = "ExtractingComments" /\ pc'[r] # "ExtractingComments") =>
               Ended(mproc[r])
          /\ (vproc[r].st = "spawned" /\ vproc'[r] # vproc[r]) =>
               vproc'[r].st \in {"closed", "errored"}
          /\ (mproc[r].st = "spawned" /\ mproc'[r] # mproc[r]) =>
               mproc'[r].st \in {"closed", "errored"}]_vars

\* Both binaries ran to their close event and the request went on.
C29_Witness ==
  /\ vproc["id1"].st = "closed" /\ mproc["id1"].st = "closed"
  /\ pc["id1"] = "Streaming"

\* ---------------------------------------------------------------- C30
\* What the exit code and the stderr accumulated at close call for.
ByExitCode(r) ==
  IF vproc[r].code = "0" THEN Resolved ELSE Rejected(ClassifyStderr(stderr[r]))

\* C30 as stated: the video invocation's promise is settled only once the
\* process has closed, and then as the exit code calls for: resolved on 0,
\* rejected with the error built from the accumulated stderr otherwise.
C30_Original ==
  \A r \in Req :
    /\ vpromise[r] # Pending => vproc[r].st \in {"closed", "failed"}
    /\ vproc[r].st \in {"closed", "failed"} => vpromise[r] = ByExitCode(r)

\* C30: for a video binary that was started, the outcome is decided at the
\* close event and by the exit code alone: pending while it runs, resolved
\* on exit 0 whatever stderr holds, rejected on any other code (null
\* included) with the error built from all the stderr chunks received,
\* which the 'Download failed' error carries in full.  When the binary could
\* not be started the outcome is decided earlier, by the error event, and
\* the close event that follows does not change it.
C30_ExitCodeDecides ==
  \A r \in Req :
    /\ vproc[r].st = "spawned" => vpromise[r] = Pending
    /\ VideoRan(r) => vpromise[r] = ByExitCode(r)
    /\ VideoExit0(r) => vpromise[r] = Resolved
    /\ VideoExitNonzero(r) =>
         /\ vpromise[r].st = "rejected"
         /\ (~HasHigherMarker(stderr[r]) /\ ~HasLoginMarker(stderr[r]) /\ stderr[r] # <<>>) =>
              vpromise[r].e.msg = <<MsgDownloadFailed>> \o stderr[r]
    /\ VideoSpawnFailed(r) =>
         vpromise[r] = Rejected(Err("InternalServerError", <<MsgSpawn, MsgSpawnErrno>>))

\* The binary exited 0 after writing an error marker and more to stderr.
C30_Witness ==
  /\ VideoExit0("id1") /\ vpromise["id1"] = Resolved
  /\ Len(stderr["id1"]) = MaxStderr
  /\ HasHigherMarker(stderr["id1"])

\* ---------------------------------------------------------------- C31
CommentsHeaders == {"X-Comments-Available", "X-Comments-Data", "X-Comments-Filename"}
Responded(r) == response[r] # NoResponse

\* C31: a download that succeeded is answered 200 with the video stream
\* whether or not comments were obtained; the response carries the three
\* X-Comments headers when the result has a non-empty comments text and
\* none of them otherwise.
C31_CommentsHeaders ==
  \A r \in Req :
    (Responded(r) /\ Returned(r)) =>
      /\ response[r].status = 200 /\ response[r].body = "stream"
      /\ IF Truthy(result[r].commentsContent)
           THEN /\ CommentsHeaders \subseteq DOMAIN response[r].headers
                /\ response[r].headers["X-Comments-Available"] = <<"true">>
                /\ response[r].headers["X-Comments-Data"] =
                     <<"base64", result[r].commentsContent>>
           ELSE CommentsHeaders \cap DOMAIN response[r].headers = {}

\* The video was obtained, the comments were not, and the client was answered.
C31_Witness ==
  /\ Responded("id1") /\ Returned("id1")
  /\ ~Truthy(result["id1"].commentsContent)
  /\ mproc["id1"].st = "closed" /\ mproc["id1"].code # "0"

\* ---------------------------------------------------------------- C32
\* The argument list holds `flag` followed by `value`; it holds `flag`.
HasPair(args, flag, value) ==
  \E i \in 1..(Len(args) - 1) : args[i] = <<flag>> /\ args[i + 1] = <<value>>
HasFlag(args, flag) == \E i \in 1..Len(args) : args[i] = <<flag>>
CookieAndAgent(args) ==
  /\ IF Truthy(cookiesBrowser)
       THEN HasPair(args, "--cookies-from-browser", cookiesBrowser)
       ELSE ~HasFlag(args, "--cookies-from-browser")
  /\ HasPair(args, "--user-agent", UserAgent)

\* C32: both invocations are spawned with '--cookies-from-browser <name>'
\* exactly when a browser name is configured, and with the fixed user-agent
\* in every configuration; past their own options the two lists are equal.
C32_SameCookieAndAgent ==
  /\ videoArgs # <<>> => CookieAndAgent(videoArgs)
  /\ metaArgs # <<>> =>
       /\ CookieAndAgent(metaArgs)
       /\ SubSeq(videoArgs, 10, Len(videoArgs)) = SubSeq(metaArgs, 7, Len(metaArgs))

C32_Witness ==
  /\ metaArgs # <<>> /\ cookiesBrowser = "firefox"
  /\ HasPair(metaArgs, "--cookies-from-browser", "firefox")

\* ---------------------------------------------------------------- C33
SpawnFailure == Rejected(Err("InternalServerError", <<MsgSpawn, MsgSpawnErrno>>))
RawSpawnFailure == Rejected(Err("Error", <<MsgSpawnErrno>>))

\* C33: a runner's promise settles once, with the first of the error and
\* close events: once settled it never changes, and after a spawn error
\* followed by a close with a nonzero code it is still the spawn failure,
\* for the video invocation and for the metadata invocation alike.
C33_SettlesOnce ==
  /\ [](\A r \in Req :
          /\ vproc[r].st \in {"errored", "failed"} => vpromise[r] = SpawnFailure
          /\ mproc[r].st \in {"errored", "failed"} => mpromise[r] = RawSpawnFailure)
  /\ [][\A r \in Req :
          /\ vpromise[r] # Pending => vpromise'[r] = vpromise[r]
          /\ mpromise[r] # Pending => mpromise'[r] = mpromise[r]]_vars

\* The metadata binary failed to spawn and its close event has followed.
C33_Witness ==
  /\ mproc["id1"].st = "failed" /\ mproc["id1"].code = SpawnFailCode
  /\ mpromise["id1"] = RawSpawnFailure

\* ---------------------------------------------------------------- C34
\* C34 as stated: once the stream's handlers have finished, the comments
\* file produced for the request is gone, whether the deletions of the
\* video file in those handlers succeeded or failed.
C34_Original ==
  \A r \in Req :
    (commentsFilePath[r] /\ stream[r] = "closed" /\ HandlersFinished(r)) =>
      ~Exists(fs, CommentsTxtPath(r))

\* ---------------------------------------------------------------- C35
\* The texts that occur in stderr, wherever they stand.
Occurring(s) == {s[i] : i \in 1..Len(s)}

\* The message of the first marker, in the fixed order, among those of M.
FirstMatch(M) ==
  IF MarkerUnavailable \in M THEN MsgUnavailable
  ELSE IF MarkerUnsupported \in M THEN MsgUnsupported
  ELSE IF Marker404 \in M THEN MsgNotFound
  ELSE IF MarkerLogin \in M \/ MarkerCookies \in M THEN MsgAuth
  ELSE "none"

\* C35: the error of a failed video invocation whose stderr holds markers
\* is the one of the first marker in the order 'Video unavailable',
\* 'Unsupported URL', 'HTTP Error 404', login/cookie; it is a function of
\* the set of markers that occur, not of where they stand in stderr.
C35_FixedPriority ==
  \A r \in Req :
    (VideoExitNonzero(r) /\ FirstMatch(Occurring(stderr[r])) # "none") =>
      vpromise[r] = Rejected(BadRequestException(FirstMatch(Occurring(stderr[r]))))

\* The login marker came first on stderr and 'HTTP Error 404' after it.
C35_Witness ==
  /\ VideoExitNonzero("id1")
  /\ stderr["id1"] = <<MarkerLogin, Marker404>>
  /\ vpromise["id1"] = Rejected(BadRequestException(MsgNotFound))

\* ---------------------------------------------------------------- C36
\* C36: downloadVideo fails only with a BadRequest (400) or with an
\* InternalServerError (500).  A BadRequest caught by the outer catch is
\* thrown on as it is; anything else caught there, the runner's own
\* InternalServerError and the raw error of fs.stat included, is thrown as
\* an InternalServerError 'Failed to download video: ' + its message; the
\* controller passes the failure on unchanged.
C36_OnlyTwoKinds ==
  \A r \in Req :
    /\ pc[r] = "Failed" =>
         /\ err[r].type \in {"BadRequest", "InternalServerError", "Error"}
         /\ result[r] = [NoResult EXCEPT
              !.outcome = "thrown",
              !.status = IF err[r].type = "BadRequest" THEN 400 ELSE 500,
              !.msg = IF err[r].type = "BadRequest" THEN err[r].msg
                      ELSE <<MsgWrap>> \o err[r].msg]
    /\ result[r].outcome = "thrown" => pc[r] = "Failed" /\ result[r].status \in {400, 500}
    /\ (Responded(r) /\ result[r].outcome = "thrown") =>
         /\ response[r].status = result[r].status
         /\ response[r].error = result[r].msg
         /\ response[r].body = "error"

\* The raw ENOENT of fs.stat reached the client as an InternalServerError.
C36_Witness ==
  /\ pc["id1"] = "Failed" /\ err["id1"].type = "Error"
  /\ Responded("id1") /\ response["id1"].status = 500
  /\ response["id1"].error = <<MsgWrap, MsgStatEnoent>>

\* ---------------------------------------------------------------- C37
\* C37 as stated: the text the web UI saves after decoding X-Comments-Data
\* is the comments text the server produced.
C37_Original ==
  commentsText # <<>> => commentsText = finalContent

\* ---------------------------------------------------------------- C38
\* API_KEYS holds no key text: it is unset, empty, or blanks and commas.
Blank(config) == \A i \in 1..Len(config) : config[i] \in {",", " "}
\* The key stands in API_KEYS as an entry, blanks around it or not.
Listed(config, key) == \E i \in 1..Len(config) : config[i] = key

\* C38 as stated: when API_KEYS is unset, empty or holds only blank
\* entries, every request is answered 401, whatever its X-API-Key.
C38_Original ==
  (Answered /\ Blank(env.API_KEYS)) => last.status = 401

\* C38: when API_KEYS is unset, empty or holds only blank entries no key is
\* valid: no request reaches downloadVideo and each is answered 401, unless
\* the throttler, which runs first, answers 429.  A key is valid exactly
\* when it equals an entry of API_KEYS with the blanks around it removed.
C38_NoKeysNoEntry ==
  Answered =>
    /\ Blank(env.API_KEYS) =>
         /\ ~last.called
         /\ IF last.totalHits > RouteLimit THEN last.status = 429 ELSE last.status = 401
    /\ (last.totalHits <= RouteLimit /\ last.key # NoKey) =>
         (last.status = 401 <=> ~Listed(env.API_KEYS, last.key))

\* A key of the test configuration is turned away because API_KEYS holds
\* blank entries only.
C38_Witness ==
  /\ Answered /\ env.API_KEYS = <<",", " ", ",">>
  /\ last.key = "test-key-123" /\ last.status = 401
  /\ last.message = {"Invalid API key"}
====
